---- MODULE Spec2Model ----
(***************************************************************************)
(* Review triage of the reviews API: the priority scorer and the auto-flag *)
(* decision of ReviewsAPI (src/src/api/integrations.js), and the review    *)
(* documents they are written to through BaseCRUD.                         *)
(*                                                                         *)
(* A text is a sequence of one-character strings.  A rating is a JS number *)
(* held in fixed point: RatingUnit units make 1, so that parseInt and the  *)
(* comparisons of the scorer can be told apart on non-integer ratings.     *)
(***************************************************************************)
EXTENDS Integers, Sequences, FiniteSets, TLC

\* ------------------------------------------------------------------ bounds

\* Fixed-point units per 1 of a rating (2: ratings in halves).
RatingUnit == 2

\* Longest text, in fragments, fed to the scorer and the flag decision.
MaxFrags == 2

\* Most review documents the collection holds.
MaxReviews == 1
MaxResponded == 1
MaxDocs == 2
MaxEdits == 1
MaxInflight == 2

\* ------------------------------------------------------- program constants

BaseScore == 5
LowRatingBonus == 3
MidRatingBonus == 2
HighRatingMalus == 1
UrgentBonus == 4
NegativeBonus == 2
LongTextLen == 500
LongTextBonus == 1
MinScore == 1
MaxScore == 10
DefaultFlagScore == 8
FlagMaxScore == 10

\* The number n as a rating in fixed point.
Stars(n) == n * RatingUnit

\* ------------------------------------------------------------------- words

W_terrible == <<"t","e","r","r","i","b","l","e">>
W_horrible == <<"h","o","r","r","i","b","l","e">>
W_worst == <<"w","o","r","s","t">>
W_awful == <<"a","w","f","u","l">>
W_scam == <<"s","c","a","m">>
W_rude == <<"r","u","d","e">>
W_unprofessional == <<"u","n","p","r","o","f","e","s","s","i","o","n","a","l">>
W_lawsuit == <<"l","a","w","s","u","i","t">>
W_legal == <<"l","e","g","a","l">>
W_health == <<"h","e","a","l","t","h">>
W_safety == <<"s","a","f","e","t","y">>
W_discrimination == <<"d","i","s","c","r","i","m","i","n","a","t","i","o","n">>
W_this == <<"t","h","i","s">>
W_is == <<"i","s">>
W_was == <<"w","a","s">>
W_a == <<"a">>
W_and == <<"a","n","d">>
W_fine == <<"f","i","n","e">>
W_service == <<"s","e","r","v","i","c","e">>
W_worthy == <<"w","o","r","t","h","y">>
W_experience == <<"e","x","p","e","r","i","e","n","c","e">>
W_ok == <<"o","k">>

Space == <<" ">>

\* The words of ws with one space between them.
RECURSIVE Join(_)
Join(ws) ==
  IF ws = <<>> THEN <<>>
  ELSE IF Len(ws) = 1 THEN ws[1]
  ELSE ws[1] \o Space \o Join(Tail(ws))

\* ------------------------------------------------------------ JS strings

UpperChars == <<"A","B","C","D","E","F","G","H","I","J","K","L","M",
                "N","O","P","Q","R","S","T","U","V","W","X","Y","Z">>
LowerChars == <<"a","b","c","d","e","f","g","h","i","j","k","l","m",
                "n","o","p","q","r","s","t","u","v","w","x","y","z">>
UpperSet == { UpperChars[i] : i \in 1..Len(UpperChars) }

\* String.prototype.toLowerCase on one character.
LowerChar(c) ==
  IF c \in UpperSet
  THEN LowerChars[CHOOSE i \in 1..Len(UpperChars) : UpperChars[i] = c]
  ELSE c

\* String.prototype.toLowerCase.
toLowerCase(text) ==
  SubSeq([i \in 1..Len(text) |-> LowerChar(text[i])], 1, Len(text))

\* String.prototype.includes: kw occurs in text as a contiguous substring.
includes(text, kw) ==
  \/ kw = <<>>
  \/ \E i \in 1..(Len(text) - Len(kw) + 1) :
       /\ text[i] = kw[1]
       /\ \A j \in 2..Len(kw) : text[i + j - 1] = kw[j]

\* Array.prototype.some(keyword => lowerText.includes(keyword)).
someIncluded(kws, lowerText) ==
  \E k \in 1..Len(kws) : includes(lowerText, kws[k])

\* A filter that stops at the first keyword found.
RECURSIVE firstIncluded(_, _)
firstIncluded(kws, lowerText) ==
  IF kws = <<>> THEN <<>>
  ELSE IF includes(lowerText, Head(kws)) THEN <<Head(kws)>>
  ELSE firstIncluded(Tail(kws), lowerText)

\* Array.prototype.filter(keyword => lowerText.includes(keyword)): every
\* keyword found, in the order of the list.
RECURSIVE filterIncluded(_, _)
filterIncluded(kws, lowerText) ==
  IF kws = <<>> THEN <<>>
  ELSE (IF includes(lowerText, Head(kws)) THEN <<Head(kws)>> ELSE <<>>)
       \o filterIncluded(Tail(kws), lowerText)

Min(a, b) == IF a <= b THEN a ELSE b
Max(a, b) == IF a >= b THEN a ELSE b

\* ---------------------------------------------- calculatePriorityScore

\* The scorer's negative keywords without 'scam'.
scoreNegativeKeywordsNoScam ==
  <<W_terrible, W_horrible, W_worst, W_awful, W_rude, W_unprofessional>>

\* The keyword lists of calculatePriorityScore.
scoreNegativeKeywords ==
  <<W_terrible, W_horrible, W_worst, W_awful, W_scam, W_rude, W_unprofessional>>
scoreUrgentKeywords ==
  <<W_lawsuit, W_legal, W_health, W_safety, W_discrimination>>

\* The rating bands with the malus taken once per star above four.
ratingAdjustmentPerStar(rating) ==
  IF rating <= Stars(2) THEN LowRatingBonus
  ELSE IF rating <= Stars(3) THEN MidRatingBonus
  ELSE IF rating >= Stars(5)
  THEN -(((rating - Stars(4)) \div RatingUnit) * HighRatingMalus)
  ELSE 0

\* The rating bands with the lowest band cut at < 2 instead of <= 2.
ratingAdjustmentStrict(rating) ==
  IF rating < Stars(2) THEN LowRatingBonus
  ELSE IF rating <= Stars(3) THEN MidRatingBonus
  ELSE IF rating >= Stars(5) THEN -HighRatingMalus
  ELSE 0

ratingAdjustment(rating) ==
  IF rating <= Stars(2) THEN LowRatingBonus
  ELSE IF rating <= Stars(3) THEN MidRatingBonus
  ELSE IF rating >= Stars(5) THEN -HighRatingMalus
  ELSE 0

\* Both tiers' bonuses added up.
keywordBonusBoth(lowerText) ==
  (IF someIncluded(scoreUrgentKeywords, lowerText) THEN UrgentBonus ELSE 0)
  + (IF someIncluded(scoreNegativeKeywords, lowerText) THEN NegativeBonus ELSE 0)

keywordBonus(lowerText) ==
  IF someIncluded(scoreUrgentKeywords, lowerText) THEN UrgentBonus
  ELSE IF someIncluded(scoreNegativeKeywords, lowerText) THEN NegativeBonus
  ELSE 0

\* The length bonus from 500 characters on.
lengthBonusFrom(text) == IF Len(text) >= LongTextLen THEN LongTextBonus ELSE 0

lengthBonus(text) == IF Len(text) > LongTextLen THEN LongTextBonus ELSE 0

unclampedScore(rating, text) ==
  BaseScore + ratingAdjustment(rating) + keywordBonus(toLowerCase(text))
    + lengthBonus(text)

\* The clamp without its upper end.
clampScoreBelow(s) == Max(MinScore, s)

clampScore(s) == Min(MaxScore, Max(MinScore, s))

calculatePriorityScore(rating, text) == clampScore(unclampedScore(rating, text))

\* ------------------------------------------------- checkAndFlag: decision

\* The keyword lists of checkAndFlag.
flagNegativeKeywords ==
  <<W_terrible, W_horrible, W_worst, W_awful, W_scam, W_rude, W_unprofessional>>
flagUrgentKeywords ==
  <<W_lawsuit, W_legal, W_health, W_safety, W_discrimination>>

\* Lines 732-740: the reason before the keywords are looked at ('' is falsy).
\* The low-rating test kept to the ratings from 1.
ratingReasonFromOne(rating) ==
  IF rating >= Stars(1) /\ rating <= Stars(2) THEN "low_rating" ELSE ""

ratingReason(rating) == IF rating <= Stars(2) THEN "low_rating" ELSE ""

\* The negative tier's reason written over the rating's.
negativeReasonAlways(reason0) == "negative_keywords"

\* flagReason || 'negative_keywords'.
negativeReason(reason0) == IF reason0 # "" THEN reason0 ELSE "negative_keywords"

\* A decision that ignores the negative tier.
decideUrgentOnly(rating, foundUrgent, foundNegative) ==
  IF Len(foundUrgent) > 0
  THEN [shouldFlag |-> TRUE, reason |-> "urgent_keywords", keywords |-> foundUrgent]
  ELSE [shouldFlag |-> ratingReason(rating) # "",
        reason |-> ratingReason(rating), keywords |-> <<>>]

\* Lines 751-759, after the low-rating test of lines 737-740.
decide(rating, foundUrgent, foundNegative) ==
  IF Len(foundUrgent) > 0
  THEN [shouldFlag |-> TRUE, reason |-> "urgent_keywords", keywords |-> foundUrgent]
  ELSE IF Len(foundNegative) > 0
  THEN [shouldFlag |-> TRUE,
        reason |-> negativeReason(ratingReason(rating)),
        keywords |-> foundNegative]
  ELSE [shouldFlag |-> ratingReason(rating) # "",
        reason |-> ratingReason(rating), keywords |-> <<>>]

\* shouldFlag, flagReason and keywords as checkAndFlag has them at line 761.
checkAndFlagDecision(rating, text) ==
  LET lowerText == toLowerCase(text)
  IN  decide(rating,
             filterIncluded(flagUrgentKeywords, lowerText),
             filterIncluded(flagNegativeKeywords, lowerText))

\* The flagData checkAndFlag hands to flagReview.
autoFlagData(d) ==
  [reason |-> d.reason, keywords |-> d.keywords, flaggedBy |-> "system"]

\* ------------------------------------------------------------ JS values

Null == "null"
ServerTimestamp == "serverTimestamp()"

\* parseInt of a number: its integer part, towards zero.
parseInt(n) ==
  IF n >= 0 THEN (n \div RatingUnit) * RatingUnit
  ELSE -(((-n) \div RatingUnit) * RatingUnit)

Whitespace == {" ", "\t", "\n"}

RECURSIVE trimStart(_)
trimStart(t) ==
  IF t # <<>> /\ Head(t) \in Whitespace THEN trimStart(Tail(t)) ELSE t

RECURSIVE trimEnd(_)
trimEnd(t) ==
  IF t # <<>> /\ t[Len(t)] \in Whitespace
  THEN trimEnd(SubSeq(t, 1, Len(t) - 1)) ELSE t

\* String.prototype.trim.
trim(t) == trimEnd(trimStart(t))

\* ------------------------------------------------------------- BaseCRUD

StringFields ==
  {"businessId", "platform", "platformReviewId", "reason", "userId", "role",
   "category", "reviewId", "responseType", "planId", "billingCycle",
   "platformBusinessId", "platformResponseId"}

\* The fields that hold a text (a sequence of characters).
TextFields ==
  {"text", "name", "templateText", "responseText", "email", "firstName"}

\* The test that takes only an absent field for a missing one.
isMissingUndefined(data, field) == field \notin DOMAIN data

\* validateRequired's test of one field: undefined, null or ''.
isMissing(data, field) ==
  \/ field \notin DOMAIN data
  \/ field \in StringFields /\ data[field] = ""
  \/ field \in TextFields /\ data[field] = <<>>

\* validateRequired: the required fields that are missing (it throws
\* VALIDATION_ERROR when there is one).
missingFields(data, requiredFields) == { f \in requiredFields : isMissing(data, f) }

\* An update that merges a map of data into the map the document holds.
updateDocMerging(document, data) ==
  [f \in DOMAIN document \cup DOMAIN data |->
     IF f \notin DOMAIN data THEN document[f]
     ELSE IF f \in {"flagging", "response"} /\ f \in DOMAIN document
     THEN [g \in DOMAIN document[f] \cup DOMAIN data[f] |->
             IF g \in DOMAIN data[f] THEN data[f][g] ELSE document[f][g]]
     ELSE data[f]]

\* updateDoc: the fields of data replace the document's, whole.
updateDoc(document, data) ==
  [f \in DOMAIN document \cup DOMAIN data |->
     IF f \in DOMAIN data THEN data[f] ELSE document[f]]

\* BaseCRUD.update's updateData.
baseUpdateData(data) ==
  [f \in DOMAIN data \cup {"updatedAt"} |->
     IF f = "updatedAt" THEN ServerTimestamp ELSE data[f]]

\* new APIError(message, code, statusCode).
APIError(message, code, statusCode) ==
  [name |-> "APIError", message |-> message, code |-> code,
   statusCode |-> statusCode]

\* An error the Firestore SDK throws: a code, no statusCode.
FirebaseError(code) ==
  [name |-> "FirebaseError", message |-> "firebase: " \o code, code |-> code]

\* handleFirebaseError: the APIError thrown for an error caught in BaseCRUD.
handleFirebaseError(error) ==
  CASE error.code = "permission-denied" ->
         APIError("Permission denied", "PERMISSION_DENIED", 403)
    [] error.code = "not-found" ->
         APIError("Document not found", "NOT_FOUND", 404)
    [] error.code = "already-exists" ->
         APIError("Document already exists", "ALREADY_EXISTS", 409)
    [] error.code = "invalid-argument" ->
         APIError("Invalid argument provided", "INVALID_ARGUMENT", 400)
    [] error.code = "unauthenticated" ->
         APIError("User not authenticated", "UNAUTHENTICATED", 401)
    [] OTHER -> APIError("Internal server error", "INTERNAL_ERROR", 500)

\* missing.join(', ').
RECURSIVE join(_)
join(names) ==
  IF names = <<>> THEN ""
  ELSE IF Len(names) = 1 THEN names[1]
  ELSE names[1] \o ", " \o join(Tail(names))

\* validateRequired's `missing`: the required fields that are missing, in the
\* order of requiredFields.
missingList(data, requiredFields) ==
  LET missing(field) == isMissing(data, field)
  IN  SelectSeq(requiredFields, missing)

\* The APIError validateRequired throws.
validationError(missing) ==
  APIError("Missing required fields: " \o join(missing), "VALIDATION_ERROR", 400)

IsoNow == "new Date().toISOString()"

\* formatResponse(data, message).
formatResponse(data, message) ==
  [success |-> TRUE, message |-> message, data |-> data, timestamp |-> IsoNow]

\* formatError(error): error.code || 'UNKNOWN_ERROR', error.statusCode || 500.
formatError(error) ==
  [success |-> FALSE,
   error |-> [code |-> IF "code" \in DOMAIN error /\ error.code # ""
                       THEN error.code ELSE "UNKNOWN_ERROR",
              message |-> IF error.message # ""
                          THEN error.message ELSE "An unknown error occurred",
              statusCode |-> IF "statusCode" \in DOMAIN error /\ error.statusCode # 0
                             THEN error.statusCode ELSE 500],
   timestamp |-> IsoNow]

\* The slot of a document deleteDoc removed.
Deleted == [deleted |-> TRUE]

\* docSnap.exists().
exists(coll, id) == id \in DOMAIN coll /\ "deleted" \notin DOMAIN coll[id]

\* { id: docSnap.id, ...docSnap.data() }.
withId(id, data) == ("id" :> id) @@ data

\* What a BaseCRUD method gives its caller: a value returned or an error
\* thrown.
Returned(data) == [ok |-> TRUE, data |-> data]
Thrown(error) == [ok |-> FALSE, error |-> error]

\* BaseCRUD.getById: the NOT_FOUND it throws is caught by its own catch and
\* goes through handleFirebaseError.
getById(coll, id) ==
  IF exists(coll, id) THEN Returned(withId(id, coll[id]))
  ELSE Thrown(handleFirebaseError(APIError("Document not found", "NOT_FOUND", 404)))

\* BaseCRUD.create with addDoc: the collection afterwards and the outcome.
create(coll, data, storeError) ==
  IF storeError # ""
  THEN [coll |-> coll,
        outcome |-> Thrown(handleFirebaseError(FirebaseError(storeError)))]
  ELSE [coll |-> Append(coll, data),
        outcome |-> Returned(withId(Len(coll) + 1, data))]

\* BaseCRUD.update: updateDoc (not-found when there is no document), then
\* getById.
update(coll, id, data, storeError) ==
  IF storeError # ""
  THEN [coll |-> coll,
        outcome |-> Thrown(handleFirebaseError(FirebaseError(storeError)))]
  ELSE IF ~exists(coll, id)
  THEN [coll |-> coll,
        outcome |-> Thrown(handleFirebaseError(FirebaseError("not-found")))]
  ELSE LET updated == [coll EXCEPT ![id] = updateDoc(@, baseUpdateData(data))]
       IN  [coll |-> updated, outcome |-> getById(updated, id)]

\* BaseCRUD.softDelete.
softDelete(coll, id, storeError) ==
  update(coll, id, [isActive |-> FALSE, deletedAt |-> ServerTimestamp], storeError)

\* BaseCRUD.delete: getById, then deleteDoc.
delete(coll, id, storeError) ==
  IF ~getById(coll, id).ok
  THEN [coll |-> coll,
        outcome |-> Thrown(handleFirebaseError(getById(coll, id).error))]
  ELSE IF storeError # ""
  THEN [coll |-> coll,
        outcome |-> Thrown(handleFirebaseError(FirebaseError(storeError)))]
  ELSE [coll |-> [coll EXCEPT ![id] = Deleted],
        outcome |-> Returned([success |-> TRUE, id |-> id])]

\* An exported function's return: formatResponse of the result, or
\* formatError of what was thrown.
respond(outcome, message) ==
  IF outcome.ok THEN formatResponse(outcome.data, message)
  ELSE formatError(outcome.error)

\* The fields of data that are in allowedFields.
allowed(data, allowedFields) ==
  [f \in DOMAIN data \cap allowedFields |-> data[f]]

\* ------------------------------------------------------------ ReviewsAPI

\* createReview's required fields, in the order validateRequired tests them.
CreateRequiredList ==
  <<"businessId", "platform", "platformReviewId", "rating", "text", "author">>

CreateRequired == { CreateRequiredList[i] : i \in DOMAIN CreateRequiredList }

\* createReview's reviewDoc (the fields the triage and the flags read).
reviewDoc(reviewData) ==
  [businessId |-> reviewData.businessId,
   platform |-> reviewData.platform,
   platformReviewId |-> reviewData.platformReviewId,
   rating |-> parseInt(reviewData.rating),
   text |-> trim(reviewData.text),
   flagging |-> [isFlagged |-> FALSE, reason |-> Null, keywords |-> <<>>,
                 flaggedAt |-> Null],
   response |-> [hasResponse |-> FALSE, responseCount |-> 0,
                 lastResponseAt |-> Null],
   isArchived |-> FALSE,
   priorityScore |-> calculatePriorityScore(reviewData.rating, reviewData.text),
   createdAt |-> ServerTimestamp,
   updatedAt |-> ServerTimestamp]

\* flagData.priorityScore || 8: undefined and 0 are falsy.
flagScoreOrDefault(flagData) ==
  IF "priorityScore" \in DOMAIN flagData /\ flagData.priorityScore # 0
  THEN flagData.priorityScore ELSE DefaultFlagScore

\* The updateData with the caller's keywords left out.
flagUpdateDataNoKeywords(flagData) ==
  [flagging |->
     [isFlagged |-> TRUE,
      reason |-> flagData.reason,
      keywords |-> <<>>,
      flaggedAt |-> ServerTimestamp,
      flaggedBy |-> IF "flaggedBy" \in DOMAIN flagData /\ flagData.flaggedBy # ""
                    THEN flagData.flaggedBy ELSE "system"],
   priorityScore |-> Min(FlagMaxScore, flagScoreOrDefault(flagData)),
   updatedAt |-> ServerTimestamp]

\* flagReview's updateData.
flagUpdateData(flagData) ==
  [flagging |->
     [isFlagged |-> TRUE,
      reason |-> flagData.reason,
      keywords |-> IF "keywords" \in DOMAIN flagData THEN flagData.keywords ELSE <<>>,
      flaggedAt |-> ServerTimestamp,
      flaggedBy |-> IF "flaggedBy" \in DOMAIN flagData /\ flagData.flaggedBy # ""
                    THEN flagData.flaggedBy ELSE "system"],
   priorityScore |-> Min(FlagMaxScore, flagScoreOrDefault(flagData)),
   updatedAt |-> ServerTimestamp]

\* The updateData with the score put back to the scorer's base.
unflagResettingScore ==
  [flagging |-> [isFlagged |-> FALSE, reason |-> Null, keywords |-> <<>>,
                 flaggedAt |-> Null, unflaggedAt |-> ServerTimestamp],
   priorityScore |-> BaseScore,
   updatedAt |-> ServerTimestamp]

\* The updateData with the date of the flag left in place.
unflagKeepingFlaggedAt ==
  [flagging |-> [isFlagged |-> FALSE, reason |-> Null, keywords |-> <<>>,
                 flaggedAt |-> ServerTimestamp, unflaggedAt |-> ServerTimestamp],
   updatedAt |-> ServerTimestamp]

\* unflagReview's updateData.
unflagUpdateData ==
  [flagging |-> [isFlagged |-> FALSE, reason |-> Null, keywords |-> <<>>,
                 flaggedAt |-> Null, unflaggedAt |-> ServerTimestamp],
   updatedAt |-> ServerTimestamp]

\* ---------------------------------------------------------------- inputs

\* n characters of padding.
Pad(n) == [i \in 1..n |-> "x"]

\* Paddings that one fragment brings to 499, 500 and 501 characters and more.
Pads == { Pad(LongTextLen - 1), Pad(LongTextLen - 6) }

Fragments ==
  { W_lawsuit, <<"L","E","G","A","L">>, <<"H","e","a","l","t","h">>, W_safety,
    W_discrimination,
    W_terrible, W_horrible, <<"W","O","R","S","T">>, W_awful,
    <<"S","c","a","m">>, W_rude, W_unprofessional,
    <<"l","e","g">>, <<"a","l">>, Space, W_ok }

RECURSIVE TextsUpTo(_)
TextsUpTo(n) ==
  IF n = 0 THEN { <<>> }
  ELSE LET shorter == TextsUpTo(n - 1)
       IN  shorter \cup { t \o f : t \in shorter, f \in Fragments }

T_this_is_fine == Join(<<W_this, W_is, W_fine>>)
T_terrible_awful_service == Join(<<W_terrible, W_awful, W_service>>)
T_lawsuit_worthy ==
  Join(<<W_this, W_was, W_a, W_lawsuit \o <<"-">> \o W_worthy, W_terrible,
         W_experience>>)
T_this_was_a_scam == Join(<<W_this, W_was, W_a, W_scam>>)
T_lawsuit_and_scam == Join(<<W_lawsuit, W_and, W_scam>>)

ExampleTexts ==
  { W_fine, T_this_is_fine, T_terrible_awful_service, T_lawsuit_worthy,
    T_this_was_a_scam, T_lawsuit_and_scam }

\* Texts around the 500 characters: a padding and at most one fragment.
LongTexts == { p \o t : p \in Pads, t \in TextsUpTo(1) }

\* The texts given to the scorer and the flag decision.
Texts == TextsUpTo(MaxFrags) \cup LongTexts \cup ExampleTexts

RatingInputs ==
  { Stars(-1), Stars(0), Stars(1), Stars(2), Stars(2) + 1, Stars(3),
    Stars(4), Stars(5), Stars(6) }

\* The reviews submitted to createReview.
ReviewRatings == { Stars(1), Stars(2) + 1, Stars(4), Stars(6) }
ReviewTexts ==
  { W_ok, <<"S","c","a","m">>, T_lawsuit_and_scam, Space \o W_rude \o Space }

ReviewInputs ==
  { [businessId |-> "b1", platform |-> "google", platformReviewId |-> "p1",
     rating |-> r, text |-> t, author |-> "author"] :
      r \in ReviewRatings, t \in ReviewTexts }

\* Submissions with required fields undefined (left out) or ''.
InvalidReviewInputs ==
  { [platform |-> "google", platformReviewId |-> "p1", rating |-> Stars(1),
     text |-> <<"S","c","a","m">>, author |-> "author"],
    [businessId |-> "b1", platform |-> "", platformReviewId |-> "p1",
     rating |-> Stars(4), text |-> W_ok, author |-> "author"],
    [businessId |-> "b1", platform |-> "google", text |-> W_ok,
     author |-> "author"],
    [businessId |-> "b1", platform |-> "google", platformReviewId |-> "p1",
     rating |-> Stars(1), text |-> <<>>, author |-> "author"],
    [businessId |-> "", platform |-> "google", platformReviewId |-> "p1",
     rating |-> Stars(6), text |-> T_lawsuit_and_scam],
    [platform |-> "google"] }

\* The submissions and the flagData of the specification of a review's life.
LifecycleInputs ==
  { [businessId |-> "b1", platform |-> "google", platformReviewId |-> "p1",
     rating |-> Stars(1), text |-> <<"S","c","a","m">>, author |-> "author"],
    [businessId |-> "b2", platform |-> "google", platformReviewId |-> "p1",
     rating |-> Stars(4), text |-> W_ok, author |-> "author"] }

LifecycleFlagInputs ==
  { [reason |-> "spam", keywords |-> <<W_scam>>, flaggedBy |-> "staff",
     priorityScore |-> 12] }

\* The submissions of the specification of the flags.
FlagSpecInputs ==
  { reviewData \in ReviewInputs :
      /\ reviewData.rating \in { Stars(1), Stars(4) }
      /\ reviewData.text \in { W_ok, <<"S","c","a","m">>, T_lawsuit_and_scam } }

\* The analysisData given to updateAnalysis.
AnalysisInputs == { [sentimentLabel |-> "negative", isSpam |-> FALSE] }

\* Everything submitted to createReview.
CreateInputs == ReviewInputs \cup InvalidReviewInputs

\* What addDoc throws: nothing, or a Firestore error code.
AddDocErrors == { "", "unavailable", "permission-denied" }

\* The flagData given to a manual flagReview.
FlagInputs ==
  { [reason |-> "manual_review"],
    [reason |-> "spam", keywords |-> <<W_scam>>, flaggedBy |-> "staff",
     priorityScore |-> 12],
    [reason |-> "manual_review", flaggedBy |-> "staff", priorityScore |-> -3],
    [reason |-> "negative_keywords", keywords |-> <<W_rude>>, priorityScore |-> 0],
    [reason |-> "", priorityScore |-> 9] }

\* ------------------------------------------------------------------ state

NoDecision == [shouldFlag |-> FALSE, reason |-> "", keywords |-> <<>>]

VARIABLES
  rating,      \* triage: the rating given to the scorer and the flag decision
  text,        \* triage: the text given to them
  step,        \* triage: "input", "scored", "decided" ("idle": not in use)
  score,       \* triage: calculatePriorityScore's result
  decision,    \* triage: checkAndFlag's shouldFlag, flagReason, keywords
  flagWrites,  \* triage: the flagData checkAndFlag passed to flagReview
  reviews,     \* the reviews collection: document id -> document
  calls,       \* the createReview call that made each document
  manual,      \* history: a manual flagReview/unflagReview touched the document
  rejected,    \* the createReview calls that stored nothing, with their response
  businesses,  \* the businesses collection: document id -> document
  teamMembers, \* the team_members subcollections: the member documents
  templates,   \* the response_templates collection
  responses,   \* the review_responses collection
  settings,    \* the system_settings collection: its 'global' document, if any
  last,        \* the last call of an exported function and what it returned
  db,          \* the other collections: collection name -> document id -> document
  inflight     \* the createUser calls between their email check and their write

triageVars == <<rating, text, step, score, decision, flagWrites>>
storeVars == <<reviews, calls, manual, rejected>>
apiVars == <<businesses, teamMembers, templates, responses, settings, last>>
dbVars == <<db, inflight>>
vars ==
  <<rating, text, step, score, decision, flagWrites, reviews, calls, manual,
    rejected, businesses, teamMembers, templates, responses, settings, last,
    db, inflight>>

NoCall == [op |-> "none"]

\* The collections of db, with no document.
NoDocuments == [id \in {} |-> id]
EmptyDb ==
  [users |-> NoDocuments, platform_integrations |-> NoDocuments,
   user_subscriptions |-> NoDocuments, alert_settings |-> NoDocuments]

\* The response of a createReview call that has not returned yet.
NotReturned == [pending |-> TRUE]

ReviewIds == 1..Len(reviews)

\* ------------------------------------------------- specification: triage

TriageInit ==
  /\ rating \in RatingInputs
  /\ text \in Texts
  /\ step = "input"
  /\ score = 0
  /\ decision = NoDecision
  /\ flagWrites = <<>>
  /\ reviews = <<>>
  /\ calls = <<>>
  /\ manual = <<>>
  /\ rejected = <<>>
  /\ businesses = <<>>
  /\ teamMembers = <<>>
  /\ templates = <<>>
  /\ responses = <<>>
  /\ settings = <<>>
  /\ last = NoCall
  /\ db = EmptyDb
  /\ inflight = <<>>

\* calculatePriorityScore(rating, text).
Score ==
  /\ step = "input"
  /\ score' = calculatePriorityScore(rating, text)
  /\ step' = "scored"
  /\ UNCHANGED <<rating, text, decision, flagWrites>>
  /\ UNCHANGED storeVars
  /\ UNCHANGED apiVars
  /\ UNCHANGED dbVars

\* checkAndFlag(reviewId, {rating, text}): the decision, and the flagReview
\* call made when shouldFlag.
Decide ==
  /\ step = "scored"
  /\ LET d == checkAndFlagDecision(rating, text)
     IN  /\ decision' = d
         /\ flagWrites' = IF d.shouldFlag
                          THEN Append(flagWrites, autoFlagData(d))
                          ELSE flagWrites
  /\ step' = "decided"
  /\ UNCHANGED <<rating, text, score>>
  /\ UNCHANGED storeVars
  /\ UNCHANGED apiVars
  /\ UNCHANGED dbVars

TriageNext == Score \/ Decide

TriageSpec == TriageInit /\ [][TriageNext]_vars

\* ------------------------------------------- specification: the collection

Init ==
  /\ rating = 0
  /\ text = <<>>
  /\ step = "idle"
  /\ score = 0
  /\ decision = NoDecision
  /\ flagWrites = <<>>
  /\ reviews = <<>>
  /\ calls = <<>>
  /\ manual = <<>>
  /\ rejected = <<>>
  /\ businesses = <<>>
  /\ teamMembers = <<>>
  /\ templates = <<>>
  /\ responses = <<>>
  /\ settings = <<>>
  /\ last = NoCall
  /\ db = EmptyDb
  /\ inflight = <<>>

\* createReview up to `await this.create(reviewDoc)`: validation, the
\* document with its computed priorityScore, addDoc. A call that
\* validateRequired or addDoc fails returns the error through the wrapper.
CreateReview(reviewData, addDocError) ==
  /\ Len(reviews) + Len(rejected) < MaxReviews
  /\ IF missingFields(reviewData, CreateRequired) # {}
     THEN /\ rejected' =
               Append(rejected,
                      [reviewData |-> reviewData,
                       response |-> formatError(validationError(
                                      missingList(reviewData, CreateRequiredList)))])
          /\ UNCHANGED <<reviews, calls, manual>>
     ELSE IF addDocError # ""
     THEN /\ rejected' =
               Append(rejected,
                      [reviewData |-> reviewData,
                       response |-> formatError(handleFirebaseError(
                                      FirebaseError(addDocError)))])
          /\ UNCHANGED <<reviews, calls, manual>>
     ELSE /\ reviews' = Append(reviews, reviewDoc(reviewData))
          /\ calls' = Append(calls, [pc |-> "created", reviewData |-> reviewData,
                                     reviewDoc |-> reviewDoc(reviewData),
                                     result |-> reviewDoc(reviewData),
                                     flagWrite |-> "none",
                                     evaluations |-> 0,
                                     flagWritesIssued |-> 0,
                                     checkAndFlag |-> FALSE,
                                     response |-> NotReturned])
          /\ manual' = Append(manual, FALSE)
          /\ UNCHANGED rejected
  /\ UNCHANGED triageVars
  /\ UNCHANGED dbVars
  /\ UNCHANGED apiVars

\* The wrapper's return, were the error flagReview threw to reach it.
createReviewPropagating(result, thrown) ==
  IF thrown
  THEN formatError(handleFirebaseError(FirebaseError("unavailable")))
  ELSE formatResponse(result, "Review created successfully")

\* What the createReview wrapper returns for the result of this.create:
\* checkAndFlag catches what flagReview throws, so nothing reaches the catch
\* of createReview or of the wrapper.
createReviewResponse(result, thrown) ==
  formatResponse(result, "Review created successfully")

\* The createReview call once checkAndFlag has returned with a thrown and
\* caught error, and with an error looked for again.
retryCheckAndFlag(thrown) == IF thrown THEN "created" ELSE "returned"

\* The createReview call once checkAndFlag is over: its catch returns false
\* and createReview returns, whether flagReview threw or not.
afterCheckAndFlag(thrown) == "returned"

\* createReview's `await this.checkAndFlag(result.id, reviewDoc)` and its
\* return: the decision on reviewDoc, the flagReview update when shouldFlag
\* (written, or failed and swallowed by checkAndFlag's catch), the result of
\* this.create handed to the wrapper.
CheckAndFlag(id, writeOk) ==
  /\ id \in ReviewIds
  /\ calls[id].pc = "created"
  /\ LET d == checkAndFlagDecision(calls[id].reviewDoc.rating, calls[id].reviewDoc.text)
         data == baseUpdateData(flagUpdateData(autoFlagData(d)))
         thrown == d.shouldFlag /\ ~writeOk
     IN  /\ ~d.shouldFlag => writeOk
         /\ reviews' = IF d.shouldFlag /\ writeOk
                       THEN [reviews EXCEPT ![id] = updateDoc(@, data)]
                       ELSE reviews
         /\ calls' = [calls EXCEPT
                        ![id].pc = afterCheckAndFlag(thrown),
                        ![id].flagWrite = IF ~d.shouldFlag THEN @
                                          ELSE IF writeOk THEN "written" ELSE "failed",
                        ![id].evaluations = @ + 1,
                        ![id].flagWritesIssued = IF d.shouldFlag THEN @ + 1 ELSE @,
                        ![id].checkAndFlag = d.shouldFlag /\ writeOk,
                        ![id].response = createReviewResponse(calls[id].result, thrown)]
  /\ UNCHANGED <<manual, rejected>>
  /\ UNCHANGED triageVars
  /\ UNCHANGED dbVars
  /\ UNCHANGED apiVars

\* flagReview(id, flagData) by a caller: validateRequired, then the update.
FlagReview(id, flagData) ==
  /\ id \in ReviewIds
  /\ IF missingFields(flagData, {"reason"}) = {}
     THEN /\ reviews' = [reviews EXCEPT
                           ![id] = updateDoc(@, baseUpdateData(flagUpdateData(flagData)))]
          /\ manual' = [manual EXCEPT ![id] = TRUE]
     ELSE UNCHANGED <<reviews, manual>>
  /\ UNCHANGED <<calls, rejected>>
  /\ UNCHANGED triageVars
  /\ UNCHANGED dbVars
  /\ UNCHANGED apiVars

\* unflagReview(id) by a caller.
UnflagReview(id) ==
  /\ id \in ReviewIds
  /\ reviews' = [reviews EXCEPT ![id] = updateDoc(@, baseUpdateData(unflagUpdateData))]
  /\ manual' = [manual EXCEPT ![id] = TRUE]
  /\ UNCHANGED <<calls, rejected>>
  /\ UNCHANGED triageVars
  /\ UNCHANGED dbVars
  /\ UNCHANGED apiVars

\* The ids in descending order of priorityScore (ties by document id).
RECURSIVE byPriorityDesc(_)
byPriorityDesc(ids) ==
  IF ids = {} THEN <<>>
  ELSE LET top == CHOOSE i \in ids :
                    \A j \in ids :
                      \/ reviews[j].priorityScore < reviews[i].priorityScore
                      \/ /\ reviews[j].priorityScore = reviews[i].priorityScore
                         /\ j <= i
       IN  <<top>> \o byPriorityDesc(ids \ {top})

\* The three filters without the one on isArchived.
getFlaggedReviewsWithArchived(businessId, limitCount) ==
  LET found == byPriorityDesc({ id \in ReviewIds :
                                 /\ reviews[id].businessId = businessId
                                 /\ reviews[id].flagging.isFlagged = TRUE })
  IN  [k \in 1..Min(limitCount, Len(found)) |-> withId(found[k], reviews[found[k]])]

\* getFlaggedReviews(businessId, {limit}): the documents of getWhere with its
\* three filters, ordered by priorityScore desc, cut at the limit.
getFlaggedReviews(businessId, limitCount) ==
  LET found == byPriorityDesc({ id \in ReviewIds :
                                 /\ reviews[id].businessId = businessId
                                 /\ reviews[id].flagging.isFlagged = TRUE
                                 /\ reviews[id].isArchived = FALSE })
  IN  [k \in 1..Min(limitCount, Len(found)) |-> withId(found[k], reviews[found[k]])]

\* options.limit || 25.
DefaultLimit == 25

\* The businesses and the limits getFlaggedReviews is asked with.
QueryBusinesses == { "b1", "b2" }
QueryLimits == { 1, DefaultLimit }

\* archiveReview(id).
ArchiveReview(id) ==
  /\ id \in ReviewIds
  /\ reviews' = [reviews EXCEPT
                   ![id] = updateDoc(@, baseUpdateData(
                             [isArchived |-> TRUE, archivedAt |-> ServerTimestamp]))]
  /\ UNCHANGED <<calls, manual, rejected>>
  /\ UNCHANGED triageVars
  /\ UNCHANGED dbVars
  /\ UNCHANGED apiVars

\* updateAnalysis(id, analysisData).
UpdateAnalysis(id, analysisData) ==
  /\ id \in ReviewIds
  /\ reviews' = [reviews EXCEPT
                   ![id] = updateDoc(@, baseUpdateData(
                             [analysis |-> analysisData,
                              updatedAt |-> ServerTimestamp]))]
  /\ UNCHANGED <<calls, manual, rejected>>
  /\ UNCHANGED triageVars
  /\ UNCHANGED dbVars
  /\ UNCHANGED apiVars

\* markAsResponded(id, responseData): increment(1) adds 1 to the stored
\* responseCount.
MarkAsResponded(id) ==
  /\ id \in ReviewIds
  /\ reviews[id].response.responseCount < MaxResponded
  /\ reviews' = [reviews EXCEPT
                   ![id] = updateDoc(@, baseUpdateData(
                             [response |->
                                [hasResponse |-> TRUE,
                                 responseCount |-> @.response.responseCount + 1,
                                 lastResponseAt |-> ServerTimestamp],
                              updatedAt |-> ServerTimestamp]))]
  /\ UNCHANGED <<calls, manual, rejected>>
  /\ UNCHANGED triageVars
  /\ UNCHANGED dbVars
  /\ UNCHANGED apiVars

Next ==
  \/ \E reviewData \in CreateInputs, addDocError \in AddDocErrors :
       CreateReview(reviewData, addDocError)
  \/ \E id \in ReviewIds, writeOk \in BOOLEAN : CheckAndFlag(id, writeOk)
  \/ \E id \in ReviewIds, flagData \in FlagInputs : FlagReview(id, flagData)
  \/ \E id \in ReviewIds : UnflagReview(id)

Spec == Init /\ [][Next]_vars

\* ------------------------------- specification: the life of a review

\* Every operation of ReviewsAPI that writes a review, on a few submissions.
LifecycleNext ==
  \/ \E reviewData \in LifecycleInputs : CreateReview(reviewData, "")
  \/ \E id \in ReviewIds, writeOk \in BOOLEAN : CheckAndFlag(id, writeOk)
  \/ \E id \in ReviewIds, flagData \in LifecycleFlagInputs : FlagReview(id, flagData)
  \/ \E id \in ReviewIds : UnflagReview(id)
  \/ \E id \in ReviewIds : ArchiveReview(id)
  \/ \E id \in ReviewIds, analysisData \in AnalysisInputs :
       UpdateAnalysis(id, analysisData)
  \/ \E id \in ReviewIds : MarkAsResponded(id)

LifecycleSpec == Init /\ [][LifecycleNext]_vars

\* ------------------------------------- specification: flags and unflags

\* createReview with its automatic flag, and the manual flagReview and
\* unflagReview, on a few submissions.
FlagNext ==
  \/ \E reviewData \in FlagSpecInputs : CreateReview(reviewData, "")
  \/ \E id \in ReviewIds, writeOk \in BOOLEAN : CheckAndFlag(id, writeOk)
  \/ \E id \in ReviewIds, flagData \in FlagInputs : FlagReview(id, flagData)
  \/ \E id \in ReviewIds : UnflagReview(id)

FlagSpec == Init /\ [][FlagNext]_vars

\* ------------------------------ businesses, templates, responses, settings

Users == { "u1", "u2" }

\* What a Firestore write throws: nothing, or an error code. An action takes
\* an error only where it reaches its write.
StoreErrors == { "", "unavailable" }


\* The documents of the four collections, a bound for the create functions.
TotalDocs == Len(businesses) + Len(teamMembers) + Len(templates) + Len(responses)

\* An id of no document.
NoDocument == 0

\* The ownership test passed by every caller.
ownedByAnyone(document, userId) == TRUE

\* The ownership test of the mutating operations: document.userId === userId.
ownedBy(document, userId) == document.userId = userId

\* The call an exported function records: its name, the caller's user id,
\* the id of the document it names, and what it returned.
Call(op, caller, target, response) ==
  [op |-> op, caller |-> caller, target |-> target, response |-> response]

\* createBusiness's businessDoc.
businessDoc(businessData, userId) ==
  [userId |-> userId,
   name |-> trim(businessData.name),
   email |-> "",
   isActive |-> TRUE,
   verificationStatus |-> "pending",
   createdAt |-> ServerTimestamp,
   updatedAt |-> ServerTimestamp]

BusinessAllowedFields ==
  {"name", "description", "category", "industry", "address", "city", "state",
   "country", "postalCode", "phone", "website", "email", "location",
   "platformIds", "businessHours", "specialties", "brandVoice"}

BusinessInputs ==
  { [name |-> Space \o W_service, userId |-> "u1"], [userId |-> "u1"] }

BusinessUpdates == { [name |-> W_experience, userId |-> "u2"] }

\* createBusiness(businessData, userId).
CreateBusiness(businessData, userId, storeError) ==
  /\ TotalDocs < MaxDocs
  /\ LET missing == missingList(businessData, <<"name", "userId">>)
         r == IF missing # <<>>
              THEN [coll |-> businesses, outcome |-> Thrown(validationError(missing))]
              ELSE IF businessData.userId # userId
              THEN [coll |-> businesses,
                    outcome |-> Thrown(APIError(
                      "User can only create businesses for themselves",
                      "PERMISSION_DENIED", 403))]
              ELSE create(businesses, businessDoc(businessData, userId), storeError)
     IN  /\ storeError # "" => (missing = <<>> /\ businessData.userId = userId)
         /\ businesses' = r.coll
         /\ last' = Call("createBusiness", userId, NoDocument,
                         respond(r.outcome, "Business created successfully"))
  /\ UNCHANGED <<teamMembers, templates, responses, settings>>
  /\ UNCHANGED triageVars
  /\ UNCHANGED dbVars
  /\ UNCHANGED storeVars

\* updateBusiness(businessId, businessData, userId).
UpdateBusiness(businessId, businessData, userId, storeError) ==
  /\ LET business == getById(businesses, businessId)
         r == IF ~business.ok
              THEN [coll |-> businesses, outcome |-> business]
              ELSE IF ~ownedBy(business.data, userId)
              THEN [coll |-> businesses,
                    outcome |-> Thrown(APIError("Permission denied",
                                                "PERMISSION_DENIED", 403))]
              ELSE update(businesses, businessId,
                          allowed(businessData, BusinessAllowedFields), storeError)
     IN  /\ storeError # "" => (business.ok /\ ownedBy(business.data, userId))
         /\ businesses' = r.coll
         /\ last' = Call("updateBusiness", userId, businessId,
                         respond(r.outcome, "Business updated successfully"))
  /\ UNCHANGED <<teamMembers, templates, responses, settings>>
  /\ UNCHANGED triageVars
  /\ UNCHANGED dbVars
  /\ UNCHANGED storeVars

\* deleteBusiness(businessId, userId): the wrapper checks, then softDelete.
DeleteBusiness(businessId, userId, storeError) ==
  /\ LET business == getById(businesses, businessId)
         r == IF ~business.ok
              THEN [coll |-> businesses, outcome |-> business]
              ELSE IF ~ownedBy(business.data, userId)
              THEN [coll |-> businesses,
                    outcome |-> Thrown(APIError("Permission denied",
                                                "PERMISSION_DENIED", 403))]
              ELSE softDelete(businesses, businessId, storeError)
     IN  /\ storeError # "" => (business.ok /\ ownedBy(business.data, userId))
         /\ businesses' = r.coll
         /\ last' = Call("deleteBusiness", userId, businessId,
                         respond(r.outcome, "Business deleted successfully"))
  /\ UNCHANGED <<teamMembers, templates, responses, settings>>
  /\ UNCHANGED triageVars
  /\ UNCHANGED dbVars
  /\ UNCHANGED storeVars

\* addTeamMember's memberDoc, in the subcollection of the business.
memberDoc(businessId, memberData, currentUserId) ==
  [businessId |-> businessId,
   userId |-> memberData.userId,
   role |-> memberData.role,
   status |-> "active",
   invitedBy |-> currentUserId,
   createdAt |-> ServerTimestamp,
   updatedAt |-> ServerTimestamp]

\* The document businesses/{businessId}/team_members/{memberId} exists.
memberExists(businessId, memberId) ==
  /\ exists(teamMembers, memberId)
  /\ teamMembers[memberId].businessId = businessId

\* getTeamMember(businessId, userId) finds a member.
isTeamMember(businessId, userId) ==
  \E m \in DOMAIN teamMembers :
    /\ memberExists(businessId, m)
    /\ teamMembers[m].userId = userId

MemberInputs == { [userId |-> "u2", role |-> "member"], [userId |-> "u2"] }

MemberUpdates == { [role |-> "admin", invitedBy |-> "u2"] }

\* addTeamMember(businessId, memberData, currentUserId): addDoc is called
\* outside BaseCRUD, its error reaches the wrapper as thrown.
AddTeamMember(businessId, memberData, currentUserId, storeError) ==
  /\ TotalDocs < MaxDocs
  /\ LET business == getById(businesses, businessId)
         missing == missingList(memberData, <<"userId", "role">>)
         r == IF ~business.ok
              THEN [coll |-> teamMembers, outcome |-> business]
              ELSE IF ~ownedBy(business.data, currentUserId)
              THEN [coll |-> teamMembers,
                    outcome |-> Thrown(APIError(
                      "Only business owner can add team members",
                      "PERMISSION_DENIED", 403))]
              ELSE IF missing # <<>>
              THEN [coll |-> teamMembers, outcome |-> Thrown(validationError(missing))]
              ELSE IF isTeamMember(businessId, memberData.userId)
              THEN [coll |-> teamMembers,
                    outcome |-> Thrown(APIError("User is already a team member",
                                                "ALREADY_EXISTS", 409))]
              ELSE IF storeError # ""
              THEN [coll |-> teamMembers, outcome |-> Thrown(FirebaseError(storeError))]
              ELSE [coll |-> Append(teamMembers,
                                    memberDoc(businessId, memberData, currentUserId)),
                    outcome |-> Returned(withId(Len(teamMembers) + 1,
                                  memberDoc(businessId, memberData, currentUserId)))]
     IN  /\ storeError # "" => (business.ok /\ ownedBy(business.data, currentUserId)
                                /\ missing = <<>>
                                /\ ~isTeamMember(businessId, memberData.userId))
         /\ teamMembers' = r.coll
         /\ last' = Call("addTeamMember", currentUserId, businessId,
                         respond(r.outcome, "Team member added successfully"))
  /\ UNCHANGED <<businesses, templates, responses, settings>>
  /\ UNCHANGED triageVars
  /\ UNCHANGED dbVars
  /\ UNCHANGED storeVars

\* updateTeamMember(businessId, memberId, memberData, currentUserId): updateDoc
\* on the member's document, called outside BaseCRUD.
UpdateTeamMember(businessId, memberId, memberData, currentUserId, storeError) ==
  /\ LET business == getById(businesses, businessId)
         updateData == ("updatedAt" :> ServerTimestamp)
                         @@ allowed(memberData, {"role", "permissions", "status"})
         r == IF ~business.ok
              THEN [coll |-> teamMembers, outcome |-> business]
              ELSE IF ~ownedBy(business.data, currentUserId)
              THEN [coll |-> teamMembers,
                    outcome |-> Thrown(APIError(
                      "Only business owner can update team members",
                      "PERMISSION_DENIED", 403))]
              ELSE IF storeError # ""
              THEN [coll |-> teamMembers, outcome |-> Thrown(FirebaseError(storeError))]
              ELSE IF ~memberExists(businessId, memberId)
              THEN [coll |-> teamMembers, outcome |-> Thrown(FirebaseError("not-found"))]
              ELSE [coll |-> [teamMembers EXCEPT
                                ![memberId] = updateDoc(@, updateData)],
                    outcome |-> Returned(withId(memberId, updateData))]
     IN  /\ storeError # "" => (business.ok /\ ownedBy(business.data, currentUserId))
         /\ teamMembers' = r.coll
         /\ last' = Call("updateTeamMember", currentUserId, businessId,
                         respond(r.outcome, "Team member updated successfully"))
  /\ UNCHANGED <<businesses, templates, responses, settings>>
  /\ UNCHANGED triageVars
  /\ UNCHANGED dbVars
  /\ UNCHANGED storeVars

\* removeTeamMember(businessId, memberId, currentUserId): deleteDoc succeeds
\* whether the member's document exists or not.
RemoveTeamMember(businessId, memberId, currentUserId, storeError) ==
  /\ LET business == getById(businesses, businessId)
         r == IF ~business.ok
              THEN [coll |-> teamMembers, outcome |-> business]
              ELSE IF ~ownedBy(business.data, currentUserId)
              THEN [coll |-> teamMembers,
                    outcome |-> Thrown(APIError(
                      "Only business owner can remove team members",
                      "PERMISSION_DENIED", 403))]
              ELSE IF storeError # ""
              THEN [coll |-> teamMembers, outcome |-> Thrown(FirebaseError(storeError))]
              ELSE [coll |-> IF memberExists(businessId, memberId)
                             THEN [teamMembers EXCEPT ![memberId] = Deleted]
                             ELSE teamMembers,
                    outcome |-> Returned([success |-> TRUE, memberId |-> memberId])]
     IN  /\ storeError # "" => (business.ok /\ ownedBy(business.data, currentUserId))
         /\ teamMembers' = r.coll
         /\ last' = Call("removeTeamMember", currentUserId, businessId,
                         respond(r.outcome, "Team member removed successfully"))
  /\ UNCHANGED <<businesses, templates, responses, settings>>
  /\ UNCHANGED triageVars
  /\ UNCHANGED dbVars
  /\ UNCHANGED storeVars

\* createTemplate's templateDoc.
templateDoc(templateData) ==
  [userId |-> templateData.userId,
   businessId |-> templateData.businessId,
   name |-> trim(templateData.name),
   templateText |-> trim(templateData.templateText),
   category |-> templateData.category,
   usageCount |-> 0,
   isActive |-> TRUE,
   isDefault |-> FALSE,
   createdAt |-> "new Date()",
   updatedAt |-> "new Date()"]

TemplateAllowedFields ==
  {"name", "description", "templateText", "category", "ratingRange", "keywords",
   "variables", "isDefault"}

TemplateInputs ==
  { [userId |-> "u1", businessId |-> "b1", name |-> W_fine,
     templateText |-> W_fine \o Space, category |-> "positive"],
    [userId |-> "u1", businessId |-> "b1", name |-> W_fine,
     category |-> "positive"] }

TemplateUpdates == { [templateText |-> W_ok, userId |-> "u2"] }

\* createTemplate(templateData).
CreateTemplate(templateData, storeError) ==
  /\ TotalDocs < MaxDocs
  /\ LET missing == missingList(templateData,
                      <<"userId", "businessId", "name", "templateText", "category">>)
         r == IF missing # <<>>
              THEN [coll |-> templates, outcome |-> Thrown(validationError(missing))]
              ELSE create(templates, templateDoc(templateData), storeError)
     IN  /\ storeError # "" => (missing = <<>>)
         /\ templates' = r.coll
         /\ last' = Call("createTemplate", "", NoDocument,
                         respond(r.outcome, "Template created successfully"))
  /\ UNCHANGED <<businesses, teamMembers, responses, settings>>
  /\ UNCHANGED triageVars
  /\ UNCHANGED dbVars
  /\ UNCHANGED storeVars

\* updateTemplate(templateId, templateData, userId).
UpdateTemplate(templateId, templateData, userId, storeError) ==
  /\ LET template == getById(templates, templateId)
         r == IF ~template.ok
              THEN [coll |-> templates, outcome |-> template]
              ELSE IF ~ownedBy(template.data, userId)
              THEN [coll |-> templates,
                    outcome |-> Thrown(APIError("Permission denied",
                                                "PERMISSION_DENIED", 403))]
              ELSE update(templates, templateId,
                          allowed(templateData, TemplateAllowedFields), storeError)
     IN  /\ storeError # "" => (template.ok /\ ownedBy(template.data, userId))
         /\ templates' = r.coll
         /\ last' = Call("updateTemplate", userId, templateId,
                         respond(r.outcome, "Template updated successfully"))
  /\ UNCHANGED <<businesses, teamMembers, responses, settings>>
  /\ UNCHANGED triageVars
  /\ UNCHANGED dbVars
  /\ UNCHANGED storeVars

\* deleteTemplate(templateId, userId): the wrapper checks, then softDelete.
DeleteTemplate(templateId, userId, storeError) ==
  /\ LET template == getById(templates, templateId)
         r == IF ~template.ok
              THEN [coll |-> templates, outcome |-> template]
              ELSE IF ~ownedBy(template.data, userId)
              THEN [coll |-> templates,
                    outcome |-> Thrown(APIError("Permission denied",
                                                "PERMISSION_DENIED", 403))]
              ELSE softDelete(templates, templateId, storeError)
     IN  /\ storeError # "" => (template.ok /\ ownedBy(template.data, userId))
         /\ templates' = r.coll
         /\ last' = Call("deleteTemplate", userId, templateId,
                         respond(r.outcome, "Template deleted successfully"))
  /\ UNCHANGED <<businesses, teamMembers, responses, settings>>
  /\ UNCHANGED triageVars
  /\ UNCHANGED dbVars
  /\ UNCHANGED storeVars

\* createResponse's responseDoc.
responseDoc(responseData) ==
  [reviewId |-> responseData.reviewId,
   businessId |-> responseData.businessId,
   userId |-> responseData.userId,
   responseText |-> trim(responseData.responseText),
   responseType |-> responseData.responseType,
   publishing |-> [isPublished |-> FALSE, publishedAt |-> Null,
                   status |-> "pending", error |-> Null],
   editCount |-> 0,
   lastEditedAt |-> Null,
   createdAt |-> ServerTimestamp,
   updatedAt |-> ServerTimestamp]

ResponseInputs ==
  { [reviewId |-> "r1", businessId |-> "b1", userId |-> "u1",
     responseText |-> W_fine, responseType |-> "manual"],
    [reviewId |-> "r1", businessId |-> "b1", userId |-> "u1",
     responseType |-> "manual"] }

NewTexts == { Space \o W_ok }

\* createResponse(responseData).
CreateResponse(responseData, storeError) ==
  /\ TotalDocs < MaxDocs
  /\ LET missing == missingList(responseData,
                      <<"reviewId", "businessId", "userId", "responseText",
                        "responseType">>)
         r == IF missing # <<>>
              THEN [coll |-> responses, outcome |-> Thrown(validationError(missing))]
              ELSE create(responses, responseDoc(responseData), storeError)
     IN  /\ storeError # "" => (missing = <<>>)
         /\ responses' = r.coll
         /\ last' = Call("createResponse", "", NoDocument,
                         respond(r.outcome, "Response created successfully"))
  /\ UNCHANGED <<businesses, teamMembers, templates, settings>>
  /\ UNCHANGED triageVars
  /\ UNCHANGED dbVars
  /\ UNCHANGED storeVars

\* updateResponseText's updateData: increment(1) on editCount, and the
\* publishing status reset when the response was published.
responseTextUpdate(response, newText) ==
  LET edit == [responseText |-> trim(newText),
               editCount |-> response.editCount + 1,
               lastEditedAt |-> ServerTimestamp,
               updatedAt |-> ServerTimestamp]
  IN  IF response.publishing.isPublished
      THEN ("publishing" :> [response.publishing EXCEPT !.status = "pending",
                                                        !.error = Null]) @@ edit
      ELSE edit

\* updateResponseText(responseId, newText, userId).
UpdateResponseText(responseId, newText, userId, storeError) ==
  /\ LET response == getById(responses, responseId)
         r == IF ~response.ok
              THEN [coll |-> responses, outcome |-> response]
              ELSE IF ~ownedBy(response.data, userId)
              THEN [coll |-> responses,
                    outcome |-> Thrown(APIError("Permission denied",
                                                "PERMISSION_DENIED", 403))]
              ELSE update(responses, responseId,
                          responseTextUpdate(response.data, newText), storeError)
     IN  /\ storeError # "" => (response.ok /\ ownedBy(response.data, userId))
         /\ (response.ok /\ ownedBy(response.data, userId))
              => response.data.editCount < MaxEdits
         /\ responses' = r.coll
         /\ last' = Call("updateResponseText", userId, responseId,
                         respond(r.outcome, "Response text updated successfully"))
  /\ UNCHANGED <<businesses, teamMembers, templates, settings>>
  /\ UNCHANGED triageVars
  /\ UNCHANGED dbVars
  /\ UNCHANGED storeVars

\* publishResponse(responseId, publishingData).
PublishResponse(responseId, publishingData, storeError) ==
  /\ LET missing == missingList(publishingData, <<"platformResponseId">>)
         updateData ==
           [publishing |->
              [isPublished |-> TRUE,
               publishedAt |-> ServerTimestamp,
               status |-> "published",
               error |-> Null],
            updatedAt |-> ServerTimestamp]
         r == IF missing # <<>>
              THEN [coll |-> responses, outcome |-> Thrown(validationError(missing))]
              ELSE update(responses, responseId, updateData, storeError)
     IN  /\ storeError # "" => (missing = <<>>)
         /\ responses' = r.coll
         /\ last' = Call("publishResponse", "", responseId,
                         respond(r.outcome, "Response published successfully"))
  /\ UNCHANGED <<businesses, teamMembers, templates, settings>>
  /\ UNCHANGED triageVars
  /\ UNCHANGED dbVars
  /\ UNCHANGED storeVars

\* markPublishingFailed(responseId, error).
MarkPublishingFailed(responseId, storeError) ==
  /\ LET updateData ==
           [publishing |->
              [isPublished |-> FALSE,
               publishedAt |-> Null,
               status |-> "failed",
               error |-> "Unknown error"],
            updatedAt |-> ServerTimestamp]
         r == update(responses, responseId, updateData, storeError)
     IN  /\ responses' = r.coll
         /\ last' = Call("markResponsePublishingFailed", "", responseId,
                         respond(r.outcome, "Response marked as failed successfully"))
  /\ UNCHANGED <<businesses, teamMembers, templates, settings>>
  /\ UNCHANGED triageVars
  /\ UNCHANGED dbVars
  /\ UNCHANGED storeVars

\* deleteResponse(responseId, userId): the wrapper checks, then delete.
DeleteResponse(responseId, userId, storeError) ==
  /\ LET response == getById(responses, responseId)
         r == IF ~response.ok
              THEN [coll |-> responses, outcome |-> response]
              ELSE IF ~ownedBy(response.data, userId)
              THEN [coll |-> responses,
                    outcome |-> Thrown(APIError("Permission denied",
                                                "PERMISSION_DENIED", 403))]
              ELSE delete(responses, responseId, storeError)
     IN  /\ storeError # "" => (response.ok /\ ownedBy(response.data, userId))
         /\ responses' = r.coll
         /\ last' = Call("deleteResponse", userId, responseId,
                         respond(r.outcome, "Response deleted successfully"))
  /\ UNCHANGED <<businesses, teamMembers, templates, settings>>
  /\ UNCHANGED triageVars
  /\ UNCHANGED dbVars
  /\ UNCHANGED storeVars

\* getBusinessById(businessId).
GetBusinessById(businessId) ==
  /\ last' = Call("getBusinessById", "", businessId,
                  respond(getById(businesses, businessId),
                          "Business retrieved successfully"))
  /\ UNCHANGED <<businesses, teamMembers, templates, responses, settings>>
  /\ UNCHANGED triageVars
  /\ UNCHANGED dbVars
  /\ UNCHANGED storeVars

\* The id of system_settings/global in the settings collection.
GlobalId == 1

\* The document initializeSystemSettings writes.
SeedSettings ==
  [maintenance |-> [enabled |-> FALSE], updatedAt |-> "new Date()"]

SettingsInputs == { [maintenance |-> [enabled |-> TRUE]] }

\* What getSystemSettings and updateSystemSettings return: the result, or
\* the message of what was thrown.
settingsRespond(outcome) ==
  IF outcome.ok THEN [success |-> TRUE, data |-> outcome.data]
  ELSE [success |-> FALSE, error |-> outcome.error.message]

\* getSystemSettings().
GetSystemSettings ==
  /\ last' = Call("getSystemSettings", "", GlobalId,
                  settingsRespond(getById(settings, GlobalId)))
  /\ UNCHANGED <<businesses, teamMembers, templates, responses, settings>>
  /\ UNCHANGED triageVars
  /\ UNCHANGED dbVars
  /\ UNCHANGED storeVars

\* updateSystemSettings(settingsData).
UpdateSystemSettings(settingsData, storeError) ==
  /\ LET r == update(settings, GlobalId, settingsData, storeError)
     IN  /\ settings' = r.coll
         /\ last' = Call("updateSystemSettings", "", GlobalId,
                         settingsRespond(r.outcome))
  /\ UNCHANGED <<businesses, teamMembers, templates, responses>>
  /\ UNCHANGED triageVars
  /\ UNCHANGED dbVars
  /\ UNCHANGED storeVars

\* ---------------------------------- specification: the exported functions

\* The collections are empty; system_settings/global is there when
\* initializeCollections has run.
ApiInit ==
  /\ rating = 0
  /\ text = <<>>
  /\ step = "idle"
  /\ score = 0
  /\ decision = NoDecision
  /\ flagWrites = <<>>
  /\ reviews = <<>>
  /\ calls = <<>>
  /\ manual = <<>>
  /\ rejected = <<>>
  /\ businesses = <<>>
  /\ teamMembers = <<>>
  /\ templates = <<>>
  /\ responses = <<>>
  /\ settings \in { <<>>, <<SeedSettings>> }
  /\ last = NoCall
  /\ db = EmptyDb
  /\ inflight = <<>>

\* The ids a caller names: those of the collection, and one of no document.
Ids(coll) == DOMAIN coll \cup { NoDocument }

ApiNext ==
  \/ \E businessData \in BusinessInputs, userId \in Users, e \in StoreErrors :
       CreateBusiness(businessData, userId, e)
  \/ \E id \in Ids(businesses), businessData \in BusinessUpdates,
        userId \in Users, e \in StoreErrors :
       UpdateBusiness(id, businessData, userId, e)
  \/ \E id \in Ids(businesses), userId \in Users, e \in StoreErrors :
       DeleteBusiness(id, userId, e)
  \/ \E id \in Ids(businesses), memberData \in MemberInputs,
        userId \in Users, e \in StoreErrors :
       AddTeamMember(id, memberData, userId, e)
  \/ \E id \in Ids(businesses), m \in Ids(teamMembers),
        memberData \in MemberUpdates, userId \in Users, e \in StoreErrors :
       UpdateTeamMember(id, m, memberData, userId, e)
  \/ \E id \in Ids(businesses), m \in Ids(teamMembers), userId \in Users,
        e \in StoreErrors :
       RemoveTeamMember(id, m, userId, e)
  \/ \E templateData \in TemplateInputs, e \in StoreErrors :
       CreateTemplate(templateData, e)
  \/ \E id \in Ids(templates), templateData \in TemplateUpdates,
        userId \in Users, e \in StoreErrors :
       UpdateTemplate(id, templateData, userId, e)
  \/ \E id \in Ids(templates), userId \in Users, e \in StoreErrors :
       DeleteTemplate(id, userId, e)
  \/ \E responseData \in ResponseInputs, e \in StoreErrors :
       CreateResponse(responseData, e)
  \/ \E id \in Ids(responses), newText \in NewTexts, userId \in Users,
        e \in StoreErrors :
       UpdateResponseText(id, newText, userId, e)
  \/ \E id \in Ids(responses), userId \in Users, e \in StoreErrors :
       DeleteResponse(id, userId, e)
  \/ \E id \in Ids(businesses) : GetBusinessById(id)
  \/ GetSystemSettings
  \/ \E settingsData \in SettingsInputs, e \in StoreErrors :
       UpdateSystemSettings(settingsData, e)

ApiSpec == ApiInit /\ [][ApiNext]_vars

\* ---------------------------- specification: the owner-checked functions

\* The nine functions that compare the caller with the owner of the target
\* document, and the four create functions that give them their documents.
OwnerNext ==
  \/ \E businessData \in BusinessInputs, userId \in Users, e \in StoreErrors :
       CreateBusiness(businessData, userId, e)
  \/ \E id \in Ids(businesses), businessData \in BusinessUpdates,
        userId \in Users, e \in StoreErrors :
       UpdateBusiness(id, businessData, userId, e)
  \/ \E id \in Ids(businesses), userId \in Users, e \in StoreErrors :
       DeleteBusiness(id, userId, e)
  \/ \E id \in Ids(businesses), memberData \in MemberInputs,
        userId \in Users, e \in StoreErrors :
       AddTeamMember(id, memberData, userId, e)
  \/ \E id \in Ids(businesses), m \in Ids(teamMembers),
        memberData \in MemberUpdates, userId \in Users, e \in StoreErrors :
       UpdateTeamMember(id, m, memberData, userId, e)
  \/ \E id \in Ids(businesses), m \in Ids(teamMembers), userId \in Users,
        e \in StoreErrors :
       RemoveTeamMember(id, m, userId, e)
  \/ \E templateData \in TemplateInputs, e \in StoreErrors :
       CreateTemplate(templateData, e)
  \/ \E id \in Ids(templates), templateData \in TemplateUpdates,
        userId \in Users, e \in StoreErrors :
       UpdateTemplate(id, templateData, userId, e)
  \/ \E id \in Ids(templates), userId \in Users, e \in StoreErrors :
       DeleteTemplate(id, userId, e)
  \/ \E responseData \in ResponseInputs, e \in StoreErrors :
       CreateResponse(responseData, e)
  \/ \E id \in Ids(responses), newText \in NewTexts, userId \in Users,
        e \in StoreErrors :
       UpdateResponseText(id, newText, userId, e)
  \/ \E id \in Ids(responses), userId \in Users, e \in StoreErrors :
       DeleteResponse(id, userId, e)

OwnerSpec == Init /\ [][OwnerNext]_vars

\* ------------------------------------ specification: publishing responses

PublishNext ==
  \/ \E responseData \in ResponseInputs, e \in StoreErrors :
       CreateResponse(responseData, e)
  \/ \E id \in Ids(responses), e \in StoreErrors,
        publishingData \in { [platformResponseId |-> "pr1"],
                             [platformResponseUrl |-> "url1"] } :
       PublishResponse(id, publishingData, e)
  \/ \E id \in Ids(responses), e \in StoreErrors : MarkPublishingFailed(id, e)
  \/ \E id \in Ids(responses), newText \in NewTexts, userId \in Users,
        e \in StoreErrors :
       UpdateResponseText(id, newText, userId, e)

PublishSpec == ApiInit /\ [][PublishNext]_vars

\* ------------------------------------------------- platform integrations

\* BaseCRUD.create with a customId: setDoc writes the document under that id,
\* over any document already there.
createWithId(coll, customId, data, storeError) ==
  IF storeError # ""
  THEN [coll |-> coll,
        outcome |-> Thrown(handleFirebaseError(FirebaseError(storeError)))]
  ELSE [coll |-> [id \in DOMAIN coll \cup {customId} |->
                    IF id = customId THEN data ELSE coll[id]],
        outcome |-> Returned(withId(customId, data))]

\* createIntegration's integrationDoc.
integrationDoc(integrationData) ==
  [businessId |-> integrationData.businessId,
   platform |-> integrationData.platform,
   platformBusinessId |-> integrationData.platformBusinessId,
   isActive |-> TRUE,
   connectionStatus |-> "connected",
   lastError |-> Null,
   createdAt |-> ServerTimestamp,
   updatedAt |-> ServerTimestamp]

\* createIntegration(integrationData), under the id {businessId}_{platform}.
CreateIntegration(integrationData, storeError) ==
  /\ LET missing == missingList(integrationData,
                      <<"businessId", "platform", "platformBusinessId">>)
         r == IF missing # <<>>
              THEN [coll |-> db.platform_integrations,
                    outcome |-> Thrown(validationError(missing))]
              ELSE createWithId(db.platform_integrations,
                                integrationData.businessId \o "_"
                                  \o integrationData.platform,
                                integrationDoc(integrationData), storeError)
     IN  /\ storeError # "" => (missing = <<>>)
         /\ db' = [db EXCEPT !.platform_integrations = r.coll]
         /\ last' = Call("createIntegration", "", "",
                         respond(r.outcome, "Integration created successfully"))
  /\ UNCHANGED <<businesses, teamMembers, templates, responses, settings>>
  /\ UNCHANGED inflight
  /\ UNCHANGED triageVars
  /\ UNCHANGED storeVars

\* updateIntegrationStatus(integrationId, status, error).
UpdateIntegrationStatus(integrationId, status, error, storeError) ==
  /\ LET statusData == [connectionStatus |-> status, lastError |-> error,
                        updatedAt |-> ServerTimestamp]
         updateData == IF status = "error" \/ status = "expired"
                       THEN ("isActive" :> FALSE) @@ statusData
                       ELSE statusData
         r == update(db.platform_integrations, integrationId, updateData,
                     storeError)
     IN  /\ db' = [db EXCEPT !.platform_integrations = r.coll]
         /\ last' = Call("updateIntegrationStatus", "", integrationId,
                         respond(r.outcome, "Integration status updated successfully"))
  /\ UNCHANGED <<businesses, teamMembers, templates, responses, settings>>
  /\ UNCHANGED inflight
  /\ UNCHANGED triageVars
  /\ UNCHANGED storeVars

IntegrationNext ==
  \/ \E platform \in {"google", "yelp", ""}, e \in StoreErrors :
       CreateIntegration([businessId |-> "b1", platform |-> platform,
                          platformBusinessId |-> "pb1"], e)
  \/ \E id \in {"b1_google", "b1_yelp", "b1_facebook"},
        status \in {"connected", "expired", "error", "disconnected"},
        e \in StoreErrors :
       UpdateIntegrationStatus(id, status,
                               IF status = "error" THEN "token revoked" ELSE Null, e)

IntegrationSpec == Init /\ [][IntegrationNext]_vars

\* -------------------------------------- subscriptions and alert settings

\* createSubscription's subscriptionDoc.
subscriptionDoc(subscriptionData) ==
  [userId |-> subscriptionData.userId,
   planId |-> subscriptionData.planId,
   status |-> "trialing",
   billingCycle |-> subscriptionData.billingCycle,
   createdAt |-> ServerTimestamp,
   updatedAt |-> ServerTimestamp]

\* createSubscription(subscriptionData), under the user's id.
CreateSubscription(subscriptionData, storeError) ==
  /\ LET missing == missingList(subscriptionData,
                      <<"userId", "planId", "billingCycle">>)
         r == IF missing # <<>>
              THEN [coll |-> db.user_subscriptions,
                    outcome |-> Thrown(validationError(missing))]
              ELSE createWithId(db.user_subscriptions, subscriptionData.userId,
                                subscriptionDoc(subscriptionData), storeError)
     IN  /\ storeError # "" => (missing = <<>>)
         /\ db' = [db EXCEPT !.user_subscriptions = r.coll]
         /\ last' = Call("createSubscription", "", "",
                         respond(r.outcome, "Subscription created successfully"))
  /\ UNCHANGED <<businesses, teamMembers, templates, responses, settings>>
  /\ UNCHANGED inflight
  /\ UNCHANGED triageVars
  /\ UNCHANGED storeVars

\* createAlertSettingsDocument(businessId): setDoc under the business's id.
CreateAlertSettingsDocument(businessId) ==
  /\ db' = [db EXCEPT !.alert_settings =
              createWithId(@, businessId,
                           [businessId |-> businessId,
                            notifications |-> [email |-> TRUE, sms |-> FALSE],
                            createdAt |-> "new Date()",
                            updatedAt |-> "new Date()"], "").coll]
  /\ UNCHANGED <<businesses, teamMembers, templates, responses, settings, last>>
  /\ UNCHANGED inflight
  /\ UNCHANGED triageVars
  /\ UNCHANGED storeVars

\* catch (error) { if (error.statusCode === 404) return null; throw error }
nullOn404(outcome) ==
  IF ~outcome.ok /\ "statusCode" \in DOMAIN outcome.error
                 /\ outcome.error.statusCode = 404
  THEN Returned(Null)
  ELSE outcome

\* getUserSubscription(userId).
GetUserSubscription(userId) ==
  /\ last' = Call("getUserSubscription", "", userId,
                  respond(nullOn404(getById(db.user_subscriptions, userId)),
                          "User subscription retrieved successfully"))
  /\ UNCHANGED <<businesses, teamMembers, templates, responses, settings>>
  /\ UNCHANGED dbVars
  /\ UNCHANGED triageVars
  /\ UNCHANGED storeVars

\* getAlertSettings(businessId).
GetAlertSettings(businessId) ==
  /\ last' = Call("getAlertSettings", "", businessId,
                  respond(nullOn404(getById(db.alert_settings, businessId)),
                          "Alert settings retrieved successfully"))
  /\ UNCHANGED <<businesses, teamMembers, templates, responses, settings>>
  /\ UNCHANGED dbVars
  /\ UNCHANGED triageVars
  /\ UNCHANGED storeVars

SubscriptionNext ==
  \/ \E userId \in Users, planId \in {"free", "pro", ""}, e \in StoreErrors :
       CreateSubscription([userId |-> userId, planId |-> planId,
                           billingCycle |-> "monthly"], e)
  \/ \E businessId \in QueryBusinesses : CreateAlertSettingsDocument(businessId)
  \/ \E userId \in Users : GetUserSubscription(userId)
  \/ \E businessId \in QueryBusinesses : GetAlertSettings(businessId)

SubscriptionSpec == Init /\ [][SubscriptionNext]_vars

\* ------------------------------------------------------------------ users

\* validateEmail's /^[^\s@]+@[^\s@]+\.[^\s@]+$/: no whitespace, one @ with
\* something before it, and after it a dot with something on both sides.
validEmail(email) ==
  /\ \A i \in 1..Len(email) : email[i] \notin Whitespace
  /\ \E at \in 2..Len(email) :
       /\ email[at] = "@"
       /\ \A i \in 1..Len(email) : email[i] = "@" => i = at
       /\ \E dot \in (at + 2)..(Len(email) - 1) : email[dot] = "."

\* getUserByEmail's query: the active users with the lower-cased, trimmed
\* email.
usersByEmail(email) ==
  { id \in DOMAIN db.users :
      /\ db.users[id].email = trim(toLowerCase(email))
      /\ db.users[id].isActive = TRUE }

\* createUser's userDoc.
userDoc(userData) ==
  [email |-> trim(toLowerCase(userData.email)),
   firstName |-> trim(userData.firstName),
   isActive |-> TRUE,
   createdAt |-> ServerTimestamp,
   updatedAt |-> ServerTimestamp]

\* createUser(userData, userId) up to the answer of getUserByEmail: the
\* validations and the email check.
CreateUserCheck(userData, userId) ==
  /\ Len(inflight) < MaxInflight
  /\ LET missing == missingList(userData, <<"email", "firstName">>)
         error == IF missing # <<>> THEN validationError(missing)
                  ELSE IF ~validEmail(userData.email)
                  THEN APIError("Invalid email format", "VALIDATION_ERROR", 400)
                  ELSE APIError("Email already exists", "EMAIL_EXISTS", 409)
     IN  IF missing = <<>> /\ validEmail(userData.email)
            /\ usersByEmail(userData.email) = {}
         THEN /\ inflight' = Append(inflight,
                                    [userData |-> userData, userId |-> userId])
              /\ UNCHANGED last
         ELSE /\ last' = Call("createUser", userId, userId,
                              respond(Thrown(error), "User created successfully"))
              /\ UNCHANGED inflight
  /\ UNCHANGED db
  /\ UNCHANGED <<businesses, teamMembers, templates, responses, settings>>
  /\ UNCHANGED triageVars
  /\ UNCHANGED storeVars

\* The rest of a createUser call: this.create(userDoc, userId).
CreateUserWrite(k, storeError) ==
  /\ k \in DOMAIN inflight
  /\ LET call == inflight[k]
         r == createWithId(db.users, call.userId, userDoc(call.userData),
                           storeError)
     IN  /\ db' = [db EXCEPT !.users = r.coll]
         /\ last' = Call("createUser", call.userId, call.userId,
                         respond(r.outcome, "User created successfully"))
  /\ inflight' = SubSeq(inflight, 1, k - 1) \o SubSeq(inflight, k + 1, Len(inflight))
  /\ UNCHANGED <<businesses, teamMembers, templates, responses, settings>>
  /\ UNCHANGED triageVars
  /\ UNCHANGED storeVars

\* The emails given to createUser.
Emails ==
  { <<"A","@","b",".","c">>, <<"a","@","b",".","c">>, <<"x","@","b",".","c">>,
    <<"a","@","b">>, <<>> }

UserNext ==
  \/ \E email \in Emails, userId \in Users :
       CreateUserCheck([email |-> email, firstName |-> W_a \o Space], userId)
  \/ \E k \in DOMAIN inflight, e \in StoreErrors : CreateUserWrite(k, e)

UserSpec == Init /\ [][UserNext]_vars

\* ------------------------------------------------------ the claims' terms

UrgentWords == {W_lawsuit, W_legal, W_health, W_safety, W_discrimination}
NegativeWords ==
  {W_terrible, W_horrible, W_worst, W_awful, W_scam, W_rude, W_unprofessional}

\* Some word of ws occurs in the lower-cased text.
ContainsAny(ws, t) == LET lower == toLowerCase(t) IN \E w \in ws : includes(lower, w)
AnyUrgent(t) == ContainsAny(UrgentWords, t)
AnyNegative(t) == ContainsAny(NegativeWords, t)

StarRatings == { Stars(n) : n \in 1..5 }

\* -------------------------------------------------------------------- C1

\* C1: for every rating, those outside 1..5 too, and every text, the score
\* calculatePriorityScore returns is an integer from 1 to 10.
C1_ScoreInRange == step \in {"scored", "decided"} => score \in 1..10

\* A rating below 1 with an urgent keyword in a long text (5 + 3 + 4 + 1).
C1_Witness ==
  /\ step = "scored"
  /\ rating < Stars(1)
  /\ AnyUrgent(text)
  /\ Len(text) > 500
  /\ score = 10

\* -------------------------------------------------------------------- C2

C2_Expected(r) ==
  CASE r = Stars(1) -> 8
    [] r = Stars(2) -> 8
    [] r = Stars(3) -> 7
    [] r = Stars(4) -> 5
    [] r = Stars(5) -> 4

\* C2: a text of at most 500 characters that matches no keyword scores 8, 8,
\* 7, 5, 4 at ratings 1, 2, 3, 4, 5 (base 5 and one rating adjustment).
C2_PlainTextScore ==
  ( /\ step = "scored"
    /\ rating \in StarRatings
    /\ Len(text) <= 500
    /\ ~AnyUrgent(text)
    /\ ~AnyNegative(text) )
  => score = C2_Expected(rating)

C2_Witness ==
  /\ step = "scored"
  /\ rating = Stars(3)
  /\ text = T_this_is_fine
  /\ score = 7

\* -------------------------------------------------------------------- C3

C3_Bonus(t) == IF AnyUrgent(t) THEN 4 ELSE IF AnyNegative(t) THEN 2 ELSE 0

\* C3: the keyword bonus is +4 when an urgent keyword occurs (never +6),
\* otherwise +2 when a negative keyword occurs, otherwise 0, however many
\* keywords match; score(4, "this was a lawsuit-worthy terrible experience")
\* is 9 and score(4, "terrible awful service") is 7.
C3_KeywordBonusOnce ==
  step = "scored" =>
    /\ score = Min(10, Max(1, 5 + ratingAdjustment(rating) + C3_Bonus(text)
                               + lengthBonus(text)))
    /\ (rating = Stars(4) /\ text = T_lawsuit_worthy) => score = 9
    /\ (rating = Stars(4) /\ text = T_terrible_awful_service) => score = 7

C3_Witness ==
  /\ step = "scored"
  /\ rating = Stars(4)
  /\ text = T_lawsuit_worthy
  /\ AnyUrgent(text) /\ AnyNegative(text)
  /\ score = 9

\* -------------------------------------------------------------------- C4

C4_Length(t) == IF Len(t) > 500 THEN 1 ELSE 0

\* C4: a text longer than 500 characters adds exactly 1 to the sum whatever
\* its keywords, one of 500 or fewer adds nothing, and the result is
\* min(10, max(1, sum)): rating 1, an urgent keyword and a long text give 10.
C4_LengthBonusAndClamp ==
  step = "scored" =>
    /\ score = Min(10, Max(1, 5 + ratingAdjustment(rating)
                               + keywordBonus(toLowerCase(text)) + C4_Length(text)))
    /\ score <= 10

C4_Witness ==
  /\ step = "scored"
  /\ rating = Stars(1)
  /\ Len(text) = 501
  /\ AnyUrgent(text)
  /\ score = 10

\* -------------------------------------------------------------------- C5

C5_Condition == rating <= Stars(2) \/ AnyUrgent(text) \/ AnyNegative(text)

\* C5: the review is flagged exactly when its rating is <= 2 or its
\* lower-cased text contains an urgent or a negative keyword; otherwise the
\* decision is shouldFlag = false, no reason, no keywords, and no flag write.
C5_FlagIff ==
  step = "decided" =>
    /\ decision.shouldFlag <=> C5_Condition
    /\ (Len(flagWrites) = 1) <=> C5_Condition
    /\ ~C5_Condition =>
         /\ decision.reason = ""
         /\ decision.keywords = <<>>
         /\ flagWrites = <<>>

C5_Witness ==
  /\ step = "decided"
  /\ rating = Stars(5)
  /\ text = T_this_was_a_scam
  /\ decision = [shouldFlag |-> TRUE, reason |-> "negative_keywords",
                 keywords |-> <<W_scam>>]
  /\ Len(flagWrites) = 1

\* -------------------------------------------------------------------- C6

\* C6: the reason is urgent_keywords whenever an urgent keyword matches,
\* otherwise low_rating whenever rating <= 2, otherwise negative_keywords
\* when a negative keyword matches.
C6_ReasonPrecedence ==
  step = "decided" =>
    /\ AnyUrgent(text) => decision.reason = "urgent_keywords"
    /\ (~AnyUrgent(text) /\ rating <= Stars(2)) => decision.reason = "low_rating"
    /\ (~AnyUrgent(text) /\ rating > Stars(2) /\ AnyNegative(text))
         => decision.reason = "negative_keywords"

C6_Witness ==
  /\ step = "decided"
  /\ rating = Stars(1)
  /\ text = T_lawsuit_and_scam
  /\ decision.reason = "urgent_keywords"

\* -------------------------------------------------------------------- C7

C7_UrgentOrder == <<W_lawsuit, W_legal, W_health, W_safety, W_discrimination>>
C7_NegativeOrder ==
  <<W_terrible, W_horrible, W_worst, W_awful, W_scam, W_rude, W_unprofessional>>

C7_Matching(list, t) ==
  LET lower == toLowerCase(t)
      found(k) == includes(lower, k)
  IN  SelectSeq(list, found)

\* C7: the decision's keywords are all the matching urgent keywords, in the
\* order lawsuit, legal, health, safety, discrimination, and no negative
\* keyword, when an urgent keyword matches; otherwise all the matching
\* negative keywords in the order terrible, horrible, worst, awful, scam,
\* rude, unprofessional.
C7_KeywordList ==
  step = "decided" =>
    decision.keywords =
      IF AnyUrgent(text) THEN C7_Matching(C7_UrgentOrder, text)
      ELSE C7_Matching(C7_NegativeOrder, text)

\* Two urgent keywords, in the text in the other order than in the list.
C7_Witness ==
  /\ step = "decided"
  /\ text = W_safety \o W_lawsuit
  /\ decision.keywords = <<W_lawsuit, W_safety>>

\* -------------------------------------------------------------------- C8

\* C8: after any sequence of createReview, flagReview (whatever its
\* flagData, a caller's priorityScore included) and unflagReview, every
\* stored review's priorityScore is from 1 to 10.
C8_StoredScoreInRange ==
  \A id \in ReviewIds : reviews[id].priorityScore \in 1..10

\* -------------------------------------------------------------------- C9

KeywordReasons == {"urgent_keywords", "negative_keywords"}

\* The document's flagging is the one checkAndFlag wrote at creation.
AutoFlagged(id) == calls[id].flagWrite = "written" /\ ~manual[id]

\* C9 as stated, for the reviews the automatic decision flagged: the keyword
\* list is non-empty only when the reason is urgent_keywords or
\* negative_keywords, so a review auto-flagged low_rating has an empty list.
C9_KeywordsOnlyWithKeywordReason ==
  \A id \in ReviewIds :
    (AutoFlagged(id) /\ Len(reviews[id].flagging.keywords) > 0)
      => reviews[id].flagging.reason \in KeywordReasons

\* C9, amended: in a review whose flagging was written by the automatic flag
\* decision, the keyword list is non-empty only when the reason is
\* urgent_keywords, negative_keywords or low_rating; with low_rating (rating
\* <= 2, no urgent keyword) the list is all the matching negative keywords,
\* so it is empty only when no negative keyword matches.
C9_AutoFlagKeywords ==
  \A id \in ReviewIds :
    AutoFlagged(id) =>
      LET f == reviews[id].flagging
          t == reviews[id].text
      IN  /\ Len(f.keywords) > 0 => f.reason \in KeywordReasons \cup {"low_rating"}
          /\ f.reason = "low_rating" =>
               /\ reviews[id].rating <= Stars(2)
               /\ ~AnyUrgent(t)
               /\ f.keywords = C7_Matching(C7_NegativeOrder, t)
          /\ f.reason \in KeywordReasons => Len(f.keywords) > 0

\* A review of rating 1 whose text says "Scam": flagged low_rating, with the
\* keyword.
C9_Witness ==
  \E id \in ReviewIds :
    /\ AutoFlagged(id)
    /\ reviews[id].rating = Stars(1)
    /\ reviews[id].flagging.reason = "low_rating"
    /\ reviews[id].flagging.keywords = <<W_scam>>

\* ------------------------------------------------------------------- C10

\* The rating and the text submitted are the ones stored (an integer rating,
\* no white space around the text).
SubmittedAsStored(id) ==
  /\ calls[id].reviewData.rating = reviews[id].rating
  /\ calls[id].reviewData.text = reviews[id].text

\* C10: once createReview has returned, with no manual flag or unflag, the
\* stored priorityScore is the scorer's result for the review's rating and
\* text, auto-flagged or not.
C10_StoredScoreIsComputed ==
  \A id \in ReviewIds :
    (calls[id].pc = "returned" /\ ~manual[id] /\ SubmittedAsStored(id))
      => reviews[id].priorityScore
           = calculatePriorityScore(reviews[id].rating, reviews[id].text)

\* ------------------------------------------------------------------- C11

\* C11: when the update that persists the auto-flag decision fails,
\* createReview still returns the success envelope with the created review,
\* checkAndFlag returns false without throwing, and the document the initial
\* create wrote stays stored (as created, until a manual flag or unflag).
C11_FlagWriteFailureSwallowed ==
  \A id \in ReviewIds :
    calls[id].flagWrite = "failed" =>
      /\ calls[id].pc = "returned"
      /\ calls[id].checkAndFlag = FALSE
      /\ calls[id].response.success
      /\ calls[id].response.data = calls[id].reviewDoc
      /\ reviews[id].text = calls[id].reviewDoc.text
      /\ reviews[id].rating = calls[id].reviewDoc.rating
      /\ ~manual[id] => reviews[id] = calls[id].reviewDoc

\* A review of rating 1 whose flag write failed: returned, stored, not flagged.
C11_Witness ==
  \E id \in ReviewIds :
    /\ calls[id].flagWrite = "failed"
    /\ calls[id].pc = "returned"
    /\ calls[id].response.success
    /\ reviews[id].rating = Stars(1)
    /\ ~reviews[id].flagging.isFlagged

\* ------------------------------------------------------------------- C12

\* The step in which the flag write of review id is persisted.
C12_Persisted(id) ==
  /\ calls[id].flagWrite = "none"
  /\ calls'[id].flagWrite = "written"

\* C12: whenever the auto-flag decision is persisted, the stored flagging has
\* isFlagged = true, the decided reason and keyword list, flaggedAt set and
\* flaggedBy = "system"; and in every stored review flaggedAt is non-null
\* only while isFlagged is true.
C12_AutoFlagStructure ==
  /\ [](\A id \in ReviewIds :
          reviews[id].flagging.flaggedAt # Null => reviews[id].flagging.isFlagged)
  /\ [][\A id \in ReviewIds :
          C12_Persisted(id) =>
            LET d == checkAndFlagDecision(reviews[id].rating, reviews[id].text)
            IN  /\ d.shouldFlag
                /\ reviews'[id].flagging =
                     [isFlagged |-> TRUE, reason |-> d.reason,
                      keywords |-> d.keywords, flaggedAt |-> ServerTimestamp,
                      flaggedBy |-> "system"]]_vars

\* A review auto-flagged for its urgent keyword, as stored by the flag write.
C12_Witness ==
  \E id \in ReviewIds :
    /\ AutoFlagged(id)
    /\ reviews[id].flagging.isFlagged
    /\ reviews[id].flagging.flaggedAt = ServerTimestamp
    /\ reviews[id].flagging.flaggedBy = "system"
    /\ reviews[id].flagging.reason = "urgent_keywords"
    /\ reviews[id].flagging.keywords = <<W_lawsuit>>

\* ------------------------------------------------------------------- C13

\* C13: for each review the automatic flag decision is evaluated, and its
\* flag write issued, at most once, during the createReview call that
\* created it: once that call has returned, no flagReview, unflagReview,
\* archiveReview, updateAnalysis or markAsResponded and no retry runs it again.
C13_AutoFlagOnce ==
  /\ [](\A id \in ReviewIds :
          /\ calls[id].evaluations <= 1
          /\ calls[id].flagWritesIssued <= calls[id].evaluations
          /\ calls[id].pc = "returned" => calls[id].evaluations = 1)
  /\ [][\A id \in ReviewIds :
          /\ calls'[id].evaluations # calls[id].evaluations
               => calls[id].pc = "created"
          /\ calls[id].pc = "returned" => calls'[id] = calls[id]]_vars

\* A review whose flag write failed at creation, then flagged by hand,
\* archived, analysed and responded to: still one evaluation, one write.
C13_Witness ==
  \E id \in ReviewIds :
    /\ calls[id].flagWrite = "failed"
    /\ calls[id].evaluations = 1
    /\ calls[id].flagWritesIssued = 1
    /\ manual[id]
    /\ reviews[id].isArchived
    /\ "analysis" \in DOMAIN reviews[id]
    /\ reviews[id].response.responseCount = 1
    /\ reviews[id].flagging.isFlagged

\* ------------------------------------------------------------------- C14

\* C14: for a rating outside 1..5 the scorer and the flag decision return as
\* for any rating: below 1 the score gets the +3 of the <= 2 band and the
\* review is flagged low_rating unless an urgent keyword makes the reason
\* urgent_keywords; above 5 the score gets the -1 of the >= 5 band and the
\* rating flags nothing (only a keyword does, never with low_rating).
C14_OutOfRangeRating ==
  (step = "decided" /\ rating \notin StarRatings) =>
    /\ rating < Stars(1) =>
         /\ score = Min(10, Max(1, 5 + 3 + C3_Bonus(text) + C4_Length(text)))
         /\ decision.shouldFlag
         /\ decision.reason =
              IF AnyUrgent(text) THEN "urgent_keywords" ELSE "low_rating"
    /\ rating > Stars(5) =>
         /\ score = Min(10, Max(1, 5 - 1 + C3_Bonus(text) + C4_Length(text)))
         /\ decision.shouldFlag <=> (AnyUrgent(text) \/ AnyNegative(text))
         /\ decision.reason # "low_rating"

\* Rating 0 and a plain text: score 8, flagged low_rating.
C14_Witness ==
  /\ step = "decided"
  /\ rating = Stars(0)
  /\ text = T_this_is_fine
  /\ score = 8
  /\ decision = [shouldFlag |-> TRUE, reason |-> "low_rating", keywords |-> <<>>]

\* ------------------------------------------------------------------- C15

\* The flagging the claim gives for a flagReview with flagData.
C15_Flagged(flagData) ==
  [isFlagged |-> TRUE,
   reason |-> flagData.reason,
   keywords |-> IF "keywords" \in DOMAIN flagData THEN flagData.keywords ELSE <<>>,
   flaggedAt |-> ServerTimestamp,
   flaggedBy |-> IF "flaggedBy" \in DOMAIN flagData THEN flagData.flaggedBy
                 ELSE "system"]

C15_Unflagged ==
  [isFlagged |-> FALSE, reason |-> Null, keywords |-> <<>>, flaggedAt |-> Null,
   unflaggedAt |-> ServerTimestamp]

\* C15: a manual flagReview and unflagReview overwrite the whole flagging
\* structure whatever it held: after flagReview it is exactly {isFlagged:
\* true, the given reason, the given keywords or [], flaggedAt: now, the given
\* actor or "system"}, after unflagReview exactly {isFlagged: false, reason:
\* null, keywords: [], flaggedAt: null, unflaggedAt: now}; no field of the
\* previous flagging survives.
C15_FlaggingOverwritten ==
  [][\A id \in ReviewIds :
       /\ \A flagData \in FlagInputs :
            (FlagReview(id, flagData) /\ flagData.reason # "") =>
              reviews'[id].flagging = C15_Flagged(flagData)
       /\ UnflagReview(id) => reviews'[id].flagging = C15_Unflagged]_vars

\* A review flagged at creation with its keyword, then flagged by hand with
\* a reason only: the keyword is gone.
C15_Witness ==
  \E id \in ReviewIds :
    /\ calls[id].flagWrite = "written"
    /\ calls[id].reviewDoc.rating = Stars(1)
    /\ AnyNegative(calls[id].reviewDoc.text)
    /\ manual[id]
    /\ reviews[id].flagging = C15_Flagged([reason |-> "manual_review"])
    /\ reviews[id].flagging.keywords = <<>>

\* ------------------------------------------------------------------- C16

\* C16: every review stored by createReview has an integer rating from 1 to
\* 5: no submission with a rating outside 1..5 gets a document written.
C16_StoredRatingInRange ==
  \A id \in ReviewIds :
    /\ reviews[id].rating \in StarRatings
    /\ calls[id].reviewData.rating >= Stars(1)
    /\ calls[id].reviewData.rating <= Stars(5)

\* ------------------------------------------------------------------- C18

\* The required fields a submission leaves out or gives as ''.
C18_Missing(reviewData) ==
  LET absent(f) ==
        \/ f \notin DOMAIN reviewData
        \/ f \in {"businessId", "platform", "platformReviewId"} /\ reviewData[f] = ""
        \/ f = "text" /\ Len(reviewData[f]) = 0
  IN  SelectSeq(<<"businessId", "platform", "platformReviewId", "rating", "text",
                  "author">>, absent)

C17_Envelope(response) ==
  \/ /\ DOMAIN response = {"success", "message", "data", "timestamp"}
     /\ response.success = TRUE
  \/ /\ DOMAIN response = {"success", "error", "timestamp"}
     /\ response.success = FALSE
     /\ DOMAIN response.error = {"code", "message", "statusCode"}

\* C17: every exported function returns the success envelope {success: true,
\* message, data, timestamp} or the failure envelope {success: false, error:
\* {code, message, statusCode}, timestamp}, getSystemSettings and
\* updateSystemSettings included.
C17_EveryFunctionReturnsEnvelope ==
  last.op # "none" => C17_Envelope(last.response)

\* The mutating functions that take the caller's user id.
C19_OwnerChecked ==
  {"updateBusiness", "deleteBusiness", "addTeamMember", "updateTeamMember",
   "removeTeamMember", "updateTemplate", "deleteTemplate", "updateResponseText",
   "deleteResponse"}

\* The collection of the document a function reads its owner from.
C19_Collection(op) ==
  IF op \in {"updateTemplate", "deleteTemplate"} THEN templates
  ELSE IF op \in {"updateResponseText", "deleteResponse"} THEN responses
  ELSE businesses

\* C19: when one of the nine owner-checked functions is called by a user who
\* is not the owner recorded in its (existing) target document, it returns
\* PERMISSION_DENIED with statusCode 403 and no stored document changes.
C19_NonOwnerDenied ==
  [][ (/\ last'.op \in C19_OwnerChecked
       /\ exists(C19_Collection(last'.op), last'.target)
       /\ C19_Collection(last'.op)[last'.target].userId # last'.caller)
      => /\ last'.response.success = FALSE
         /\ last'.response.error.code = "PERMISSION_DENIED"
         /\ last'.response.error.statusCode = 403
         /\ UNCHANGED <<businesses, teamMembers, templates, responses, settings>>
         /\ UNCHANGED storeVars ]_vars

\* A user who is not the owner of a business has asked to remove a member of
\* its team: the call was denied and the member is still there.
C19_Witness ==
  /\ last.op = "removeTeamMember"
  /\ last.caller = "u2"
  /\ exists(businesses, last.target)
  /\ businesses[last.target].userId = "u1"
  /\ last.response.success = FALSE
  /\ last.response.error.code = "PERMISSION_DENIED"
  /\ last.response.error.statusCode = 403
  /\ \E m \in DOMAIN teamMembers : memberExists(last.target, m)


\* The keywords of a list, as a set.
C20_Set(kws) == { kws[k] : k \in 1..Len(kws) }

\* The keyword bonus calculatePriorityScore applies to the text.
C20_Bonus == keywordBonus(toLowerCase(text))

\* C20: for every text the scorer and the flag decision agree on the
\* keywords: the score has the +4 urgent bonus exactly when checkAndFlag
\* decides urgent_keywords, the +2 negative bonus exactly when checkAndFlag
\* finds no urgent keyword and at least one negative keyword, and the two
\* functions have the same two keyword sets.
C20_ScorerAndFlagAgree ==
  /\ C20_Set(scoreUrgentKeywords) = C20_Set(flagUrgentKeywords)
  /\ C20_Set(scoreNegativeKeywords) = C20_Set(flagNegativeKeywords)
  /\ step = "decided" =>
       /\ (C20_Bonus = UrgentBonus) <=> (decision.reason = "urgent_keywords")
       /\ (C20_Bonus = NegativeBonus)
            <=> (decision.reason # "urgent_keywords" /\ decision.keywords # <<>>)
       /\ (C20_Bonus = 0) <=> (decision.keywords = <<>>)
       /\ score = clampScore(BaseScore + ratingAdjustment(rating) + C20_Bonus
                               + lengthBonus(text))

\* A four-star text with an upper-case urgent keyword and a mixed-case
\* negative one: both functions took the urgent tier.
C20_Witness ==
  /\ step = "decided"
  /\ rating = Stars(4)
  /\ text = <<"L","E","G","A","L">> \o <<"S","c","a","m">>
  /\ decision.reason = "urgent_keywords"
  /\ decision.keywords = <<W_legal>>
  /\ score = BaseScore + UrgentBonus


\* The smallest sum of the scorer: the base score less the five-star malus.
C30_Floor == BaseScore - HighRatingMalus

\* C30: for every rating and text calculatePriorityScore returns at least 4:
\* the unclamped sum is never below 5 - 1, so the lower clamp to 1 changes
\* nothing and a score of 1, 2 or 3 is never returned.
C30_ScoreAtLeastFour ==
  /\ unclampedScore(rating, text) >= C30_Floor
  /\ Max(MinScore, unclampedScore(rating, text)) = unclampedScore(rating, text)
  /\ step \in {"scored", "decided"} => score >= C30_Floor

\* A six-star review without keywords was scored at the floor.
C30_Witness ==
  /\ step = "scored"
  /\ rating = Stars(6)
  /\ text = W_ok
  /\ score = C30_Floor


\* C22: the priority score createReview stores is the scorer's result for
\* the rating and the text it stores (parseInt of the rating, the trimmed
\* text), the ones the flag decision is computed from.
C22_ScoreOfStoredFields ==
  \A id \in ReviewIds :
    calls[id].reviewDoc.priorityScore
      = calculatePriorityScore(calls[id].reviewDoc.rating, calls[id].reviewDoc.text)


\* C23: when createReview returns and no other caller has touched the
\* review, the document it returns is the review as stored: an auto-flagged review is returned with flagging.isFlagged = true,
\* the decided reason and keywords, and the priority score of the flag.
C23_ReturnedIsStored ==
  [][ \A id \in ReviewIds :
        (calls[id].pc = "created" /\ calls'[id].pc = "returned" /\ ~manual[id])
          => /\ calls'[id].response.success
             /\ calls'[id].response.data.flagging = reviews'[id].flagging
             /\ calls'[id].response.data.priorityScore = reviews'[id].priorityScore
    ]_vars


\* C24: once another caller's flagReview or unflagReview has been applied to
\* a review, the creation-time flag write of that review's createReview
\* does not overwrite what the caller wrote.
C24_ManualNotOverwritten ==
  [][ \A id \in ReviewIds :
        (manual[id] /\ calls[id].pc = "created" /\ calls'[id].pc = "returned")
          => /\ reviews'[id].flagging = reviews[id].flagging
             /\ reviews'[id].priorityScore = reviews[id].priorityScore
    ]_vars


\* C25: unflagReview changes only the flagging structure and updatedAt of
\* the review; rating, text, isArchived, response and priorityScore stay as
\* they were, so an unflagged review keeps the score flagReview wrote.
C25_UnflagFrame ==
  [][ \A id \in ReviewIds :
        UnflagReview(id)
          => /\ DOMAIN reviews'[id] = DOMAIN reviews[id]
             /\ \A f \in DOMAIN reviews[id] \ {"flagging", "updatedAt"} :
                  reviews'[id][f] = reviews[id][f]
             /\ reviews'[id].flagging.isFlagged = FALSE
    ]_vars

\* An archived, responded review that was flagged by hand and then unflagged:
\* it has the score of the flag, not the one computed at creation.
C25_Witness ==
  \E id \in ReviewIds :
    /\ reviews[id].flagging.isFlagged = FALSE
    /\ "unflaggedAt" \in DOMAIN reviews[id].flagging
    /\ reviews[id].isArchived
    /\ reviews[id].response.hasResponse
    /\ reviews[id].priorityScore = FlagMaxScore
    /\ calls[id].reviewDoc.priorityScore # FlagMaxScore


\* The ids of the documents getFlaggedReviews returns.
C21_Returned(businessId, limitCount) ==
  { getFlaggedReviews(businessId, limitCount)[k].id :
      k \in DOMAIN getFlaggedReviews(businessId, limitCount) }

\* The flagged, unarchived reviews of a business.
C21_Flagged(businessId) ==
  { id \in ReviewIds : /\ reviews[id].businessId = businessId
                       /\ reviews[id].flagging.isFlagged
                       /\ ~reviews[id].isArchived }

\* C21: a review whose createReview has returned with its automatic flag
\* written is among the results of getFlaggedReviews for its business (when
\* the flagged reviews fit the limit) for as long as it is neither unflagged
\* nor archived; an unflagged or archived review, or one of another business,
\* is never among them.
C21_FlaggedReviewsListed ==
  \A businessId \in QueryBusinesses, limitCount \in QueryLimits :
    /\ \A id \in ReviewIds :
         (/\ calls[id].pc = "returned"
          /\ calls[id].flagWrite = "written"
          /\ reviews[id].businessId = businessId
          /\ "unflaggedAt" \notin DOMAIN reviews[id].flagging
          /\ ~reviews[id].isArchived
          /\ Cardinality(C21_Flagged(businessId)) <= limitCount)
           => id \in C21_Returned(businessId, limitCount)
    /\ \A id \in C21_Returned(businessId, limitCount) :
         /\ reviews[id].businessId = businessId
         /\ reviews[id].flagging.isFlagged
         /\ ~reviews[id].isArchived
    /\ Cardinality(C21_Returned(businessId, limitCount)) <= limitCount

\* An auto-flagged review of b1, analysed and responded to since, is listed
\* for b1 and not for b2.
C21_Witness ==
  \E id \in ReviewIds :
    /\ calls[id].pc = "returned"
    /\ calls[id].flagWrite = "written"
    /\ reviews[id].response.hasResponse
    /\ "analysis" \in DOMAIN reviews[id]
    /\ C21_Returned("b1", DefaultLimit) = {id}
    /\ C21_Returned("b2", DefaultLimit) = {}


\* C26: in every stored response publishing.isPublished is true exactly when
\* publishing.status is 'published'.
C26_PublishedIffStatus ==
  \A id \in DOMAIN responses :
    exists(responses, id)
      => (responses[id].publishing.isPublished
            <=> responses[id].publishing.status = "published")


\* C29: every stored platform integration is inactive exactly when its
\* connectionStatus is 'error' or 'expired'.
C29_InactiveIffErrorOrExpired ==
  \A id \in DOMAIN db.platform_integrations :
    (db.platform_integrations[id].isActive = FALSE)
      <=> (db.platform_integrations[id].connectionStatus \in {"error", "expired"})


\* C27: a read of a document that does not exist is reported as not-found
\* (NOT_FOUND, 404), so getUserSubscription and getAlertSettings return null
\* in a success envelope when there is no document for the id.
C27_MissingReadsAsNull ==
  /\ (/\ last.op = "getUserSubscription"
      /\ ~exists(db.user_subscriptions, last.target))
       => /\ getById(db.user_subscriptions, last.target).error.code = "NOT_FOUND"
          /\ getById(db.user_subscriptions, last.target).error.statusCode = 404
          /\ last.response.success
          /\ last.response.data = Null
  /\ (/\ last.op = "getAlertSettings"
      /\ ~exists(db.alert_settings, last.target))
       => /\ getById(db.alert_settings, last.target).error.code = "NOT_FOUND"
          /\ getById(db.alert_settings, last.target).error.statusCode = 404
          /\ last.response.success
          /\ last.response.data = Null


\* C28: at most one active user document exists for a lower-cased, trimmed
\* email, whatever the interleaving of the createUser calls.
C28_OneActiveUserPerEmail ==
  \A i, j \in DOMAIN db.users :
    (/\ i # j
     /\ db.users[i].isActive
     /\ db.users[j].isActive)
      => db.users[i].email # db.users[j].email

====
